---- MODULE Spec2Model ----
(***************************************************************************)
(* The now-playing proxy of src/pages/api/spotify.ts as a state machine.   *)
(*                                                                         *)
(* JavaScript runs one task to completion before the next, so an action is *)
(* the code between two awaits: the arrival of a request runs GET and      *)
(* getCachedOrFreshResult down to the first await, and each answer of the  *)
(* file system or of Spotify runs the continuation down to the next one.   *)
(* Strings are sequences of one-character strings, so that trim() and      *)
(* join() are computed and not assumed.                                    *)
(***************************************************************************)
EXTENDS Integers, Sequences, FiniteSets, TLC

(* ------------------------------ bounds -------------------------------- *)

\* Number of /api/spotify requests of one behaviour.
NumRequests == 2

\* Last value of the clock (Date.now()), in milliseconds.
MaxNow == 1

Requests == 1..NumRequests

(* ------------------------- values and strings ------------------------- *)

\* null / undefined / a value that is not a string.
Null == <<"<null>">>

\* No promise is stored in inFlightResponse.
NoPromise == 0

\* NaN, the result of Number.parseInt on text that is not a number.
NaN == -999

Whitespace == {" "}

RECURSIVE TrimStart(_)
TrimStart(s) ==
    IF s # <<>> /\ Head(s) \in Whitespace THEN TrimStart(Tail(s)) ELSE s

RECURSIVE TrimEnd(_)
TrimEnd(s) ==
    IF s # <<>> /\ s[Len(s)] \in Whitespace
    THEN TrimEnd(SubSeq(s, 1, Len(s) - 1))
    ELSE s

\* String.prototype.trim
Trim(s) == TrimEnd(TrimStart(s))

\* spotify.ts normalizeToken
normalizeToken(value) ==
    IF value = Null THEN Null
    ELSE LET trimmed == Trim(value)
         IN  IF Len(trimmed) > 0 THEN trimmed ELSE Null

(* ------------------------------ parseTrack ---------------------------- *)

\* A nullable object is a sequence of length 0 (null, undefined) or 1.
\* A raw track of the Spotify API: name is a string or Null, artists a
\* nullable sequence of names (Null for an entry without a string name), url
\* the external url and image the url of the first album image, or Null.
RECURSIVE ArtistNames(_)
ArtistNames(artists) ==
    IF artists = <<>> THEN <<>>
    ELSE LET a == Head(artists)
             n == IF a = Null THEN <<>> ELSE Trim(a)
         IN  IF n # <<>> THEN <<n>> \o ArtistNames(Tail(artists))
             ELSE ArtistNames(Tail(artists))

RECURSIVE Join(_)
Join(names) ==
    IF Len(names) = 1 THEN names[1]
    ELSE names[1] \o <<",", " ">> \o Join(Tail(names))

NullTrack == [title |-> Null, artist |-> Null, songUrl |-> Null, albumImageUrl |-> Null]

parseTrack(item) ==
    IF item = <<>> THEN NullTrack
    ELSE LET track == item[1]
             title == IF track.name # Null /\ Trim(track.name) # <<>>
                      THEN Trim(track.name) ELSE Null
             artistNames == IF track.artists # <<>>
                            THEN ArtistNames(track.artists[1]) ELSE <<>>
             artist == IF Len(artistNames) > 0 THEN Join(artistNames) ELSE Null
         IN  [title |-> title, artist |-> artist,
              songUrl |-> track.url, albumImageUrl |-> track.image]

(* ------------------------- results and the cache ---------------------- *)

Payload(source, isPlaying, track, playedAt, message) ==
    [source |-> source, isPlaying |-> isPlaying, title |-> track.title,
     artist |-> track.artist, songUrl |-> track.songUrl,
     albumImageUrl |-> track.albumImageUrl, playedAt |-> playedAt,
     message |-> message]

\* The payload carries no message.
NoMessage == ""

EndpointResult(status, payload) == [status |-> status, payload |-> payload]

\* fetchLiveResult, the result without client credentials
UnconfiguredResult ==
    EndpointResult(200, Payload("unconfigured", FALSE, NullTrack, Null,
        "Spotify client credentials are not configured on the server."))

\* The failure reported with status 200.
ErrorResultOk ==
    EndpointResult(200, Payload("error", FALSE, NullTrack, Null,
        "Unable to reach Spotify API."))

\* fetchLiveResult, the result of its catch block
ErrorResult ==
    EndpointResult(502, Payload("error", FALSE, NullTrack, Null,
        "Unable to reach Spotify API."))

\* The message of the error returned to the caller in place of the fixed
\* text.
CaughtResultEchoesError(error) ==
    EndpointResult(502, Payload("error", FALSE, NullTrack, Null, error))

\* fetchLiveResult 463-478: the catch block. The error it caught goes to the
\* log and not into the result.
CaughtResult(error) == ErrorResult

DefaultResponseTtl == 300000
DefaultErrorTtl == 5000
DefaultUnconfiguredTtl == 60000

Digits == <<"0", "1", "2", "3", "4", "5", "6", "7", "8", "9">>

IsDigit(ch) == \E d \in 1..10 : Digits[d] = ch

DigitValue(ch) == (CHOOSE d \in 1..10 : Digits[d] = ch) - 1

\* The longest prefix of s made of decimal digits.
RECURSIVE LeadingDigits(_)
LeadingDigits(s) ==
    IF s = <<>> \/ ~IsDigit(Head(s)) THEN <<>>
    ELSE <<Head(s)>> \o LeadingDigits(Tail(s))

\* The number a sequence of decimal digits writes, after acc.
RECURSIVE DigitsValue(_, _)
DigitsValue(s, acc) ==
    IF s = <<>> THEN acc ELSE DigitsValue(Tail(s), acc * 10 + DigitValue(Head(s)))

\* Number.parseInt(text, 10): leading whitespace is skipped, a sign is
\* taken, the digits that follow are read up to the first other character,
\* and the result is NaN when there is no digit.
parseInt(text) ==
    LET t == TrimStart(text)
        signed == t # <<>> /\ Head(t) \in {"+", "-"}
        ds == LeadingDigits(IF signed THEN Tail(t) ELSE t)
    IN  IF ds = <<>> THEN NaN
        ELSE IF signed /\ Head(t) = "-" THEN 0 - DigitsValue(ds, 0)
             ELSE DigitsValue(ds, 0)

DefaultResponseTtlText == <<"3", "0", "0", "0", "0", "0">>
DefaultErrorTtlText == <<"5", "0", "0", "0">>
DefaultUnconfiguredTtlText == <<"6", "0", "0", "0", "0">>

\* Lines 57-59: a TTL setting as parsed, the default text standing in for
\* a setting that is unset or empty.
TtlSetting(env, defaultText) ==
    parseInt(IF env # Null /\ env # <<>> THEN env ELSE defaultText)

effectiveTtl(value, fallback) ==
    IF value = NaN \/ value < 0 THEN fallback ELSE value

\* Every invalid setting falls back to the default of the response TTL.
cacheTtlForOneDefault(result, cfg) ==
    IF result.payload.source = "error"
    THEN effectiveTtl(cfg.error, DefaultResponseTtl)
    ELSE IF result.payload.source = "unconfigured"
         THEN effectiveTtl(cfg.unconfigured, DefaultResponseTtl)
         ELSE effectiveTtl(cfg.response, DefaultResponseTtl)

cacheTtlFor(result, cfg) ==
    IF result.payload.source = "error"
    THEN effectiveTtl(cfg.error, DefaultErrorTtl)
    ELSE IF result.payload.source = "unconfigured"
         THEN effectiveTtl(cfg.unconfigured, DefaultUnconfiguredTtl)
         ELSE effectiveTtl(cfg.response, DefaultResponseTtl)

buildCachedResult(result, cfg, t) ==
    [status |-> result.status, payload |-> result.payload,
     expiresAt |-> t + cacheTtlFor(result, cfg)]

\* The expiry compared with > in place of >=: a result is still served at
\* the instant it expires.
readFreshCacheLate(cache, t) ==
    IF cache = <<>> THEN <<>>
    ELSE IF t > cache[1].expiresAt THEN <<>>
         ELSE <<EndpointResult(cache[1].status, cache[1].payload)>>

\* The cache slot is a nullable CachedResponse.
readFreshCache(cache, t) ==
    IF cache = <<>> THEN <<>>
    ELSE IF t >= cache[1].expiresAt THEN <<>>
         ELSE <<EndpointResult(cache[1].status, cache[1].payload)>>

(* ---------------------------- the token store ------------------------- *)

\* A file is missing, holds a prefix of the JSON text being written
\* (partial), or holds the whole text of a TokenStorePayload (complete).
MissingFile == [kind |-> "missing", refreshToken |-> Null, updatedAt |-> 0]
PartialFile == [kind |-> "partial", refreshToken |-> Null, updatedAt |-> 0]
CompleteFile(payload) ==
    [kind |-> "complete", refreshToken |-> payload.refreshToken,
     updatedAt |-> payload.updatedAt]

\* readFile and JSON.parse of the store: a missing file (ENOENT), a read
\* error and text that does not parse all give null.
readStoredRefreshToken(file, readFails) ==
    IF readFails \/ file.kind # "complete" THEN Null
    ELSE normalizeToken(file.refreshToken)

\* The candidates in the wrong order: the token of the environment first.
tokenCandidatesEnvFirst(storedRefreshToken, envToken) ==
    (IF envToken # Null /\ envToken # storedRefreshToken
     THEN <<[source |-> "env", value |-> envToken]>> ELSE <<>>)
    \o
    (IF storedRefreshToken # Null
     THEN <<[source |-> "stored", value |-> storedRefreshToken]>> ELSE <<>>)

tokenCandidates(storedRefreshToken, envToken) ==
    (IF storedRefreshToken # Null
     THEN <<[source |-> "stored", value |-> storedRefreshToken]>> ELSE <<>>)
    \o
    (IF envToken # Null /\ envToken # storedRefreshToken
     THEN <<[source |-> "env", value |-> envToken]>> ELSE <<>>)

(* ------------------------- answers of Spotify ------------------------- *)

\* The refresh token the store starts with.
StoredToken == <<"s">>

\* The access token the provider issues for a refresh token.
AccessTokenFor(refreshToken) == <<"A">> \o refreshToken

\* refresh_token of a token response: absent, the stored token again, or a
\* new token (sent with surrounding whitespace).
RotatedTokens == {Null, StoredToken, <<" ", "n", " ">>}

\* An answer of the token endpoint to an exchange of refreshToken: the fetch
\* rejects, or a response with a status and, for 200, a JSON body.
TokenResponses(refreshToken) ==
    {[kind |-> "throw", status |-> 0, access_token |-> Null, refresh_token |-> Null],
     [kind |-> "response", status |-> 400, access_token |-> Null, refresh_token |-> Null],
     [kind |-> "response", status |-> 200, access_token |-> <<" ">>, refresh_token |-> Null]}
    \cup
    {[kind |-> "response", status |-> 200,
      access_token |-> AccessTokenFor(refreshToken), refresh_token |-> rt] :
        rt \in RotatedTokens}

\* requestAccessToken after its fetch: ok is FALSE where the code throws.
requestAccessToken(response) ==
    IF response.kind = "throw"
    THEN [ok |-> FALSE, accessToken |-> Null, rotatedRefreshToken |-> Null,
          error |-> "fetch failed"]
    ELSE IF response.status \notin 200..299
    THEN [ok |-> FALSE, accessToken |-> Null, rotatedRefreshToken |-> Null,
          error |-> "Spotify token request failed with status 400: invalid_grant"]
    ELSE LET accessToken == normalizeToken(response.access_token)
         IN  IF accessToken = Null
             THEN [ok |-> FALSE, accessToken |-> Null, rotatedRefreshToken |-> Null,
                   error |-> "Spotify token response did not include access_token"]
             ELSE [ok |-> TRUE, accessToken |-> accessToken,
                   rotatedRefreshToken |-> normalizeToken(response.refresh_token),
                   error |-> ""]

TrackSong ==
    [name |-> <<" ", "S">>, artists |-> << << <<"A">>, Null, <<"B", " ">> >> >>,
     url |-> <<"u">>, image |-> <<"i">>]

\* A track without a usable name or artist.
TrackBlank ==
    [name |-> <<" ">>, artists |-> << <<Null>> >>, url |-> <<"u">>, image |-> Null]

\* is_playing is a nullable boolean; item a nullable track.
CurrentBodies ==
    {[is_playing |-> <<TRUE>>, item |-> <<TrackSong>>],
     [is_playing |-> <<FALSE>>, item |-> <<TrackSong>>],
     [is_playing |-> <<TRUE>>, item |-> <<TrackBlank>>],
     [is_playing |-> <<>>, item |-> <<>>]}

NoCurrentBody == [is_playing |-> <<>>, item |-> <<>>]

\* An answer of currently-playing: the fetch rejects, or a response whose
\* body does (json = TRUE) or does not parse as JSON.
CurrentResponses ==
    {[kind |-> "throw", status |-> 0, json |-> FALSE, body |-> NoCurrentBody],
     [kind |-> "response", status |-> 401, json |-> FALSE, body |-> NoCurrentBody],
     [kind |-> "response", status |-> 204, json |-> FALSE, body |-> NoCurrentBody],
     [kind |-> "response", status |-> 200, json |-> FALSE, body |-> NoCurrentBody]}
    \cup
    {[kind |-> "response", status |-> 200, json |-> TRUE, body |-> b] :
        b \in CurrentBodies}

\* items is a nullable array of {track, played_at}.
RecentBodies ==
    {[items |-> <<>>],
     [items |-> << <<>> >>],
     [items |-> << << [track |-> <<TrackSong>>, played_at |-> <<"t">>] >> >>],
     [items |-> << << [track |-> <<TrackBlank>>, played_at |-> Null] >> >>]}

NoRecentBody == [items |-> <<>>]

RecentResponses ==
    {[kind |-> "throw", status |-> 0, json |-> FALSE, body |-> NoRecentBody],
     [kind |-> "response", status |-> 500, json |-> FALSE, body |-> NoRecentBody],
     [kind |-> "response", status |-> 204, json |-> FALSE, body |-> NoRecentBody],
     [kind |-> "response", status |-> 200, json |-> FALSE, body |-> NoRecentBody]}
    \cup
    {[kind |-> "response", status |-> 200, json |-> TRUE, body |-> b] :
        b \in RecentBodies}

\* Boolean(value) of a nullable boolean
ToBoolean(value) == value = <<TRUE>>

\* The status check at 406 left out: after any answer without a track the
\* cycle goes on to recently-played.
CurrentlyPlayingStepFallsThrough(response) ==
    IF response.kind = "throw" THEN [kind |-> "throw", result |-> ErrorResult]
    ELSE IF response.status = 200 /\ response.json
    THEN LET track == parseTrack(response.body.item)
         IN  IF track.title # Null \/ track.artist # Null
             THEN [kind |-> "return",
                   result |-> EndpointResult(200,
                       Payload("spotify", ToBoolean(response.body.is_playing),
                               track, Null, NoMessage))]
             ELSE [kind |-> "next", result |-> ErrorResult]
    ELSE [kind |-> "next", result |-> ErrorResult]

\* isPlaying set to true for every track, whatever is_playing says.
CurrentlyPlayingStepAlwaysPlaying(response) ==
    IF response.kind = "throw" THEN [kind |-> "throw", result |-> ErrorResult]
    ELSE IF response.status = 200
    THEN IF ~response.json THEN [kind |-> "throw", result |-> ErrorResult]
         ELSE LET track == parseTrack(response.body.item)
              IN  IF track.title # Null \/ track.artist # Null
                  THEN [kind |-> "return",
                        result |-> EndpointResult(200,
                            Payload("spotify", TRUE, track, Null, NoMessage))]
                  ELSE [kind |-> "next", result |-> ErrorResult]
    ELSE IF response.status # 204
         THEN [kind |-> "throw", result |-> ErrorResult]
         ELSE [kind |-> "next", result |-> ErrorResult]

\* fetchLiveResult from the answer of currently-playing to its return, its
\* throw, or its call of recently-played (next).
CurrentlyPlayingStep(response) ==
    IF response.kind = "throw"
    THEN [kind |-> "throw", result |-> CaughtResult("fetch failed")]
    ELSE IF response.status = 200
    THEN IF ~response.json
         THEN [kind |-> "throw",
               result |-> CaughtResult("Unexpected token < in JSON at position 0")]
         ELSE LET track == parseTrack(response.body.item)
              IN  IF track.title # Null \/ track.artist # Null
                  THEN [kind |-> "return",
                        result |-> EndpointResult(200,
                            Payload("spotify", ToBoolean(response.body.is_playing),
                                    track, Null, NoMessage))]
                  ELSE [kind |-> "next", result |-> ErrorResult]
    ELSE IF response.status # 204
         THEN [kind |-> "throw",
               result |-> CaughtResult("Spotify currently-playing request failed with status 401")]
         ELSE [kind |-> "next", result |-> ErrorResult]

\* played_at dropped: the recent track is returned without its timestamp.
RecentlyPlayedStepNoTimestamp(response) ==
    IF response.kind = "throw" THEN [kind |-> "throw", result |-> ErrorResult]
    ELSE IF response.status = 200
    THEN IF ~response.json THEN [kind |-> "throw", result |-> ErrorResult]
         ELSE LET items == response.body.items
                  item == IF items # <<>> /\ items[1] # <<>> THEN <<items[1][1]>> ELSE <<>>
                  track == parseTrack(IF item # <<>> THEN item[1].track ELSE <<>>)
              IN  [kind |-> "return",
                   result |-> EndpointResult(200,
                       Payload("spotify", FALSE, track, Null, NoMessage))]
    ELSE IF response.status # 204
         THEN [kind |-> "throw", result |-> ErrorResult]
         ELSE [kind |-> "return",
               result |-> EndpointResult(200,
                   Payload("spotify", FALSE, NullTrack, Null, NoMessage))]

\* fetchLiveResult from the answer of recently-played to its return or throw.
RecentlyPlayedStep(response) ==
    IF response.kind = "throw"
    THEN [kind |-> "throw", result |-> CaughtResult("fetch failed")]
    ELSE IF response.status = 200
    THEN IF ~response.json
         THEN [kind |-> "throw",
               result |-> CaughtResult("Unexpected token < in JSON at position 0")]
         ELSE LET items == response.body.items
                  item == IF items # <<>> /\ items[1] # <<>> THEN <<items[1][1]>> ELSE <<>>
                  track == parseTrack(IF item # <<>> THEN item[1].track ELSE <<>>)
                  playedAt == IF item # <<>> THEN item[1].played_at ELSE Null
              IN  [kind |-> "return",
                   result |-> EndpointResult(200,
                       Payload("spotify", FALSE, track, playedAt, NoMessage))]
    ELSE IF response.status # 204
         THEN [kind |-> "throw",
               result |-> CaughtResult("Spotify recently-played request failed with status 500")]
         ELSE [kind |-> "return",
               result |-> EndpointResult(200,
                   Payload("spotify", FALSE, NullTrack, Null, NoMessage))]

(* ------------------------------- state -------------------------------- *)

VARIABLES
    clientId,           \* SPOTIFY_CLIENT_ID as configured, or Null
    clientSecret,       \* SPOTIFY_CLIENT_SECRET as configured, or Null
    envRefreshToken,    \* SPOTIFY_REFRESH_TOKEN as configured, or Null
    ttlConfig,          \* the three parsed cache TTL settings
    cachedResponse,     \* module variable cachedResponse (nullable)
    inFlightResponse,   \* module variable inFlightResponse: the request whose
                        \* promise it holds, or NoPromise
    now,                \* Date.now()
    storeFile,          \* the file at tokenStorePath()
    tempFile,           \* the file at tokenStorePath() + ".tmp"
    pc,                 \* where each request is
    cycle,              \* the locals of the fetch cycle each request runs
    promiseValue,       \* per request, the value the promise of the fetch it
                        \* started has resolved to (nullable), while the
                        \* promise is referenced
    response,           \* the response each request is about to send (nullable)
    calls,              \* per request, the outbound calls and store accesses
                        \* its fetch cycle made, in order
    input,              \* the argument of a function applied on its own
    output,             \* its result (nullable)
    variant,            \* which build of /api/homelab serves the request:
                        \* "collections" (homelab.ts) or "system" (the
                        \* system-scoped build)
    hpc,                \* where the /api/homelab request is
    h,                  \* the locals of the snapshot build (nullable)
    snapshot,           \* the local snapshot of GET (nullable)
    homelabResponse     \* the Response GET returns (nullable)

\* The state of the now-playing proxy.
spotify == <<clientId, clientSecret, envRefreshToken, ttlConfig, cachedResponse,
             inFlightResponse, now, storeFile, tempFile, pc, cycle, promiseValue,
             response, calls>>

\* The state of the homelab proxy.
homelab == <<variant, hpc, h, snapshot, homelabResponse>>

\* What the now-playing proxy leaves alone.
others == <<input, output, homelab>>

\* No /api/homelab request has arrived.
HomelabIdle ==
    /\ variant = "collections"
    /\ hpc = "idle"
    /\ h = <<>>
    /\ snapshot = <<>>
    /\ homelabResponse = <<>>

vars == <<spotify, others>>

config == <<clientId, clientSecret, envRefreshToken, ttlConfig>>
files == <<storeFile, tempFile>>

\* The settings of SPOTIFY_CLIENT_ID and SPOTIFY_CLIENT_SECRET: unset, set to
\* the empty string, or set.
ClientIds == {Null, <<>>, <<"i">>}
ClientSecrets == {Null, <<"x">>}

\* A string setting that JavaScript takes as true.
Truthy(value) == value # Null /\ value # <<>>

\* The test taken as "both are missing": one credential is enough to go on.
HasCredentialsEither(id, secret) == Truthy(id) \/ Truthy(secret)

\* fetchLiveResult 360: both client credentials are set.
HasCredentials(id, secret) == Truthy(id) /\ Truthy(secret)

clientConfigured == HasCredentials(clientId, clientSecret)

\* The settings of SPOTIFY_REFRESH_TOKEN.
EnvRefreshTokens == {Null, <<"e", " ">>, StoredToken}

\* The texts of SPOTIFY_RESPONSE_CACHE_TTL_MS,
\* SPOTIFY_RESPONSE_ERROR_CACHE_TTL_MS and SPOTIFY_UNCONFIGURED_CACHE_TTL_MS:
\* unset, empty, not a number, negative, and small values.
TtlEnvs ==
    {[response |-> <<"x">>, error |-> <<"-", "1">>, unconfigured |-> Null],
     [response |-> <<"1">>, error |-> <<"0">>, unconfigured |-> <<" ", "1">>],
     [response |-> <<>>, error |-> <<"1">>, unconfigured |-> <<"0", "x">>],
     [response |-> <<"0">>, error |-> <<"x">>, unconfigured |-> <<"-", "1">>]}

\* The three module constants the settings give.
TtlConfigs ==
    {[response |-> TtlSetting(e.response, DefaultResponseTtlText),
      error |-> TtlSetting(e.error, DefaultErrorTtlText),
      unconfigured |-> TtlSetting(e.unconfigured, DefaultUnconfiguredTtlText)] :
        e \in TtlEnvs}

InitialStoreFiles ==
    {MissingFile, CompleteFile([refreshToken |-> StoredToken, updatedAt |-> 0])}

NoPayload == [refreshToken |-> Null, updatedAt |-> 0]

\* The locals of a request: the promise getCachedOrFreshResult awaits, the
\* locals of resolveSpotifySession (with exchanged, the candidates it has
\* sent to the token endpoint and how each exchange ended, and persistFailed,
\* that persistRefreshToken threw), the payload persistRefreshToken writes,
\* and the access token and the two answers fetchLiveResult holds.
NoCycle ==
    [promise |-> NoPromise,
     storedRefreshToken |-> Null, candidates |-> <<>>, index |-> 0,
     exchanged |-> <<>>, rotatedRefreshToken |-> Null,
     latestRefreshToken |-> Null, payload |-> NoPayload, persistFailed |-> FALSE,
     accessToken |-> Null, current |-> <<>>, recent |-> <<>>]

Init ==
    /\ clientId \in ClientIds
    /\ clientSecret \in ClientSecrets
    /\ envRefreshToken \in EnvRefreshTokens
    /\ ttlConfig \in TtlConfigs
    /\ cachedResponse = <<>>
    /\ inFlightResponse = NoPromise
    /\ now = 0
    /\ storeFile \in InitialStoreFiles
    /\ tempFile = MissingFile
    /\ pc = [r \in Requests |-> "idle"]
    /\ cycle = [r \in Requests |-> NoCycle]
    /\ promiseValue = [r \in Requests |-> <<>>]
    /\ response = [r \in Requests |-> <<>>]
    /\ calls = [r \in Requests |-> <<>>]
    /\ input = <<>>
    /\ output = <<>>
    /\ HomelabIdle

\* The promise of the fetch request q started has settled.
Settled(q) == promiseValue[q] # <<>>

\* A continuation is queued as a microtask: it runs before any further
\* request or I/O completion is handled.
MicrotaskPending ==
    \E q \in Requests :
        \/ pc[q] \in {"session", "finally", "respond"}
        \/ pc[q] = "attached" /\ Settled(cycle[q].promise)

\* Promise p is still referenced when the module variable is m and the
\* requests are at where: by the variable, or by a request awaiting it.
Referenced(p, m, where) ==
    \/ m = p
    \/ where[p] = "finally"
    \/ \E q \in Requests : where[q] = "attached" /\ cycle[q].promise = p

\* The promise values left once unreferenced promises are collected.
Collect(m, where) ==
    [p \in Requests |-> IF Referenced(p, m, where) THEN promiseValue[p] ELSE <<>>]

\* The check of the marker left out: every request without a fresh cached
\* result starts a fetch of its own.
HasInFlightNever(inFlight) == FALSE

\* getCachedOrFreshResult line 491: a fetch is in flight.
HasInFlight(inFlight) == inFlight # NoPromise

\* A failed fetch is not cached: only a result of status 200 is written.
SettleSkipsErrors(r, c, result) ==
    /\ cachedResponse' = IF result.status = 200
                          THEN <<buildCachedResult(result, ttlConfig, now)>>
                          ELSE cachedResponse
    /\ cycle' = [cycle EXCEPT ![r] = c]
    /\ promiseValue' = [promiseValue EXCEPT ![r] = <<result>>]
    /\ pc' = [pc EXCEPT ![r] = "finally"]

\* A failed fetch does not replace a cached successful result.
SettleKeepsOkCache(r, c, result) ==
    /\ cachedResponse' = IF result.status # 200 /\ cachedResponse # <<>>
                             /\ cachedResponse[1].status = 200
                          THEN cachedResponse
                          ELSE <<buildCachedResult(result, ttlConfig, now)>>
    /\ cycle' = [cycle EXCEPT ![r] = c]
    /\ promiseValue' = [promiseValue EXCEPT ![r] = <<result>>]
    /\ pc' = [pc EXCEPT ![r] = "finally"]

\* The async function of getCachedOrFreshResult 496-505 after fetchLiveResult
\* returned result: the cache slot is written and the promise resolves.
Settle(r, c, result) ==
    /\ cachedResponse' = <<buildCachedResult(result, ttlConfig, now)>>
    /\ cycle' = [cycle EXCEPT ![r] = c]
    /\ promiseValue' = [promiseValue EXCEPT ![r] = <<result>>]
    /\ pc' = [pc EXCEPT ![r] = "finally"]

\* resolveSpotifySession 285-291: the exchange of candidate i starts.
StartExchange(r, c, i) ==
    /\ cycle' = [cycle EXCEPT ![r] =
           [c EXCEPT !.index = i,
                     !.exchanged = Append(@, [candidate |-> c.candidates[i],
                                              outcome |-> "pending"])]]
    /\ pc' = [pc EXCEPT ![r] = "token"]
    /\ calls' = [calls EXCEPT ![r] = Append(@, "token")]
    /\ UNCHANGED <<cachedResponse, promiseValue>>

\* resolveSpotifySession 306: the session is returned, after a failure to
\* persist (failed) or without one.
ReturnSession(r, c, failed) ==
    /\ cycle' = [cycle EXCEPT ![r] = [c EXCEPT !.persistFailed = failed]]
    /\ pc' = [pc EXCEPT ![r] = "session"]
    /\ UNCHANGED <<cachedResponse, promiseValue, calls>>

\* GET and getCachedOrFreshResult up to the first await. Requests are
\* numbered in the order they arrive.
Arrive(r) ==
    /\ pc[r] = "idle"
    /\ \A q \in Requests : q < r => pc[q] # "idle"
    /\ ~MicrotaskPending
    /\ LET fromCache == readFreshCache(cachedResponse, now)
       IN  IF fromCache # <<>>
           THEN /\ response' = [response EXCEPT ![r] = fromCache]
                /\ pc' = [pc EXCEPT ![r] = "respond"]
                /\ UNCHANGED <<cachedResponse, inFlightResponse, cycle, promiseValue, calls>>
           ELSE IF HasInFlight(inFlightResponse)
           THEN /\ pc' = [pc EXCEPT ![r] = "attached"]
                /\ cycle' = [cycle EXCEPT ![r].promise = inFlightResponse]
                /\ UNCHANGED <<cachedResponse, inFlightResponse, promiseValue, response, calls>>
           ELSE /\ inFlightResponse' = r
                /\ UNCHANGED response
                /\ IF ~clientConfigured
                   THEN /\ Settle(r, [cycle[r] EXCEPT !.promise = r], UnconfiguredResult)
                        /\ UNCHANGED calls
                   ELSE /\ pc' = [pc EXCEPT ![r] = "readStore"]
                        /\ calls' = [calls EXCEPT ![r] = Append(@, "readStore")]
                        /\ cycle' = [cycle EXCEPT ![r].promise = r]
                        /\ UNCHANGED <<cachedResponse, promiseValue>>
    /\ UNCHANGED <<config, others, now, files>>

\* resolveSpotifySession 307-316: the exchange of candidate c.index threw
\* error;
\* the next candidate is tried, or the last error is thrown and caught at
\* fetchLiveResult 463.
ExchangeFailed(r, c, error) ==
    IF c.index < Len(c.candidates)
    THEN StartExchange(r, c, c.index + 1)
    ELSE Settle(r, c, CaughtResult(error)) /\ UNCHANGED calls

\* The try/catch around persistRefreshToken left out: its error reaches the
\* catch of the candidate loop and the exchange counts as failed.
PersistFailedRethrown(r, c) ==
    ExchangeFailed(r, [c EXCEPT !.persistFailed = TRUE], "EACCES: permission denied")

\* resolveSpotifySession 299-306: persistRefreshToken threw; the error is
\* logged and the session is returned.
PersistFailed(r, c) == ReturnSession(r, c, TRUE)

\* The comparison with the stored token left out: every latest token is
\* persisted.
NeedsPersistAlways(latestRefreshToken, storedRefreshToken) == TRUE

\* resolveSpotifySession 298: the latest refresh token is to be persisted.
NeedsPersist(latestRefreshToken, storedRefreshToken) ==
    latestRefreshToken # storedRefreshToken

\* readFile answers: readStoredRefreshToken 164-184 and resolveSpotifySession
\* 270-291, down to the first token request.
ReadStore(r) ==
    /\ pc[r] = "readStore"
    /\ ~MicrotaskPending
    /\ \E readFails \in BOOLEAN :
         LET stored == readStoredRefreshToken(storeFile, readFails)
             cands == tokenCandidates(stored, normalizeToken(envRefreshToken))
             c == [cycle[r] EXCEPT !.storedRefreshToken = stored, !.candidates = cands]
         IN  IF Len(cands) = 0
             THEN Settle(r, c, CaughtResult("Missing Spotify refresh token"))
                  /\ UNCHANGED calls
             ELSE StartExchange(r, c, 1)
    /\ UNCHANGED <<config, others, inFlightResponse, now, files, response>>

\* The token endpoint answers: requestAccessToken 229-258 and
\* resolveSpotifySession 292-316, down to the next await.
TokenResponse(r) ==
    /\ pc[r] = "token"
    /\ ~MicrotaskPending
    /\ LET c == cycle[r]
           candidate == c.candidates[c.index]
       IN  \E answer \in TokenResponses(candidate.value) :
             LET tokenResult == requestAccessToken(answer)
                 latest == IF tokenResult.rotatedRefreshToken # Null
                           THEN tokenResult.rotatedRefreshToken
                           ELSE candidate.value
                 got == [c EXCEPT !.accessToken = tokenResult.accessToken,
                                  !.rotatedRefreshToken = tokenResult.rotatedRefreshToken,
                                  !.latestRefreshToken = latest,
                                  !.exchanged[c.index].outcome = "ok"]
                 failed == [c EXCEPT !.exchanged[c.index].outcome = "failed"]
             IN  IF ~tokenResult.ok
                 THEN ExchangeFailed(r, failed, tokenResult.error)
                 ELSE IF NeedsPersist(latest, c.storedRefreshToken)
                      THEN /\ cycle' = [cycle EXCEPT ![r] = got]
                           /\ pc' = [pc EXCEPT ![r] = "mkdir"]
                           /\ calls' = [calls EXCEPT ![r] = Append(@, "persist")]
                           /\ UNCHANGED <<cachedResponse, promiseValue>>
                      ELSE ReturnSession(r, got, FALSE)
    /\ UNCHANGED <<config, others, inFlightResponse, now, files, response>>

\* The token of the candidate persisted in place of the latest one: a
\* rotated token is lost.
PersistMkdirStoresCandidate(r) ==
    /\ pc[r] = "mkdir"
    /\ ~MicrotaskPending
    /\ \E fails \in BOOLEAN :
         IF fails
         THEN PersistFailed(r, cycle[r])
         ELSE /\ cycle' = [cycle EXCEPT ![r].payload =
                     [refreshToken |-> cycle[r].candidates[cycle[r].index].value,
                      updatedAt |-> now]]
              /\ pc' = [pc EXCEPT ![r] = "write"]
              /\ UNCHANGED <<cachedResponse, promiseValue, calls>>
    /\ UNCHANGED <<config, others, inFlightResponse, now, files, response>>

\* mkdir answers: persistRefreshToken 192-203. A failure is caught at
\* resolveSpotifySession 301 and the session is returned.
PersistMkdir(r) ==
    /\ pc[r] = "mkdir"
    /\ ~MicrotaskPending
    /\ \E fails \in BOOLEAN :
         IF fails
         THEN PersistFailed(r, cycle[r])
         ELSE /\ cycle' = [cycle EXCEPT ![r].payload =
                     [refreshToken |-> normalizeToken(cycle[r].latestRefreshToken),
                      updatedAt |-> now]]
              /\ pc' = [pc EXCEPT ![r] = "write"]
              /\ UNCHANGED <<cachedResponse, promiseValue, calls>>
    /\ UNCHANGED <<config, others, inFlightResponse, now, files, response>>

\* The record written straight to the store path, without a temporary file.
WritePathStore == "store"

\* The path persistRefreshToken writes the new record to (199-203).
WritePath == "temp"

\* writeFile opens and truncates its file, or fails to.
PersistOpen(r) ==
    /\ pc[r] = "write"
    /\ \E fails \in BOOLEAN :
         IF fails
         THEN PersistFailed(r, cycle[r]) /\ UNCHANGED files
         ELSE /\ pc' = [pc EXCEPT ![r] = "writing"]
              /\ IF WritePath = "temp"
                 THEN tempFile' = PartialFile /\ UNCHANGED storeFile
                 ELSE storeFile' = PartialFile /\ UNCHANGED tempFile
              /\ UNCHANGED <<cachedResponse, cycle, promiseValue, calls>>
    /\ UNCHANGED <<config, others, inFlightResponse, now, response>>

\* writeFile answers: the whole text is written, or the write failed part
\* way; persistRefreshToken 200-204.
PersistWrite(r) ==
    /\ pc[r] = "writing"
    /\ ~MicrotaskPending
    /\ \E fails \in BOOLEAN :
         IF fails
         THEN PersistFailed(r, cycle[r]) /\ UNCHANGED files
         ELSE /\ pc' = [pc EXCEPT ![r] = "rename"]
              /\ IF WritePath = "temp"
                 THEN tempFile' = CompleteFile(cycle[r].payload) /\ UNCHANGED storeFile
                 ELSE storeFile' = CompleteFile(cycle[r].payload) /\ UNCHANGED tempFile
              /\ UNCHANGED <<cachedResponse, cycle, promiseValue, calls>>
    /\ UNCHANGED <<config, others, inFlightResponse, now, response>>

\* rename answers: persistRefreshToken 204-205 and resolveSpotifySession
\* 301-306.
PersistRename(r) ==
    /\ pc[r] = "rename"
    /\ ~MicrotaskPending
    /\ \E fails \in BOOLEAN :
         IF fails \/ tempFile.kind = "missing"
         THEN PersistFailed(r, cycle[r]) /\ UNCHANGED files
         ELSE /\ storeFile' = tempFile
              /\ tempFile' = MissingFile
              /\ ReturnSession(r, cycle[r], FALSE)
    /\ UNCHANGED <<config, others, inFlightResponse, now, response>>

\* fetchLiveResult 380-382: resolveSpotifySession has returned, its locals
\* are gone, and currently-playing is requested with the access token.
SessionReturned(r) ==
    /\ pc[r] = "session"
    /\ cycle' = [cycle EXCEPT ![r] =
           [NoCycle EXCEPT !.promise = cycle[r].promise,
                           !.accessToken = cycle[r].accessToken]]
    /\ pc' = [pc EXCEPT ![r] = "current"]
    /\ calls' = [calls EXCEPT ![r] = Append(@, "current")]
    /\ UNCHANGED <<config, others, cachedResponse, inFlightResponse, now, files,
                   promiseValue, response>>

\* currently-playing answers: fetchLiveResult 383-415 and 463-478.
CurrentResponse(r) ==
    /\ pc[r] = "current"
    /\ ~MicrotaskPending
    /\ \E answer \in CurrentResponses :
         LET step == CurrentlyPlayingStep(answer)
             c == [cycle[r] EXCEPT !.current = <<answer>>]
         IN  IF step.kind = "next"
             THEN /\ cycle' = [cycle EXCEPT ![r] = c]
                  /\ pc' = [pc EXCEPT ![r] = "recent"]
                  /\ calls' = [calls EXCEPT ![r] = Append(@, "recent")]
                  /\ UNCHANGED <<cachedResponse, promiseValue>>
             ELSE Settle(r, c, step.result) /\ UNCHANGED calls
    /\ UNCHANGED <<config, others, inFlightResponse, now, files, response>>

\* recently-played answers: fetchLiveResult 416-478.
RecentResponse(r) ==
    /\ pc[r] = "recent"
    /\ ~MicrotaskPending
    /\ \E answer \in RecentResponses :
         LET step == RecentlyPlayedStep(answer)
             c == [cycle[r] EXCEPT !.recent = <<answer>>]
         IN  Settle(r, c, step.result)
    /\ UNCHANGED <<config, others, inFlightResponse, now, files, response, calls>>

\* The finally block left out: the result is returned and the marker stays.
FinallyKeepsMarker(r) ==
    /\ pc[r] = "finally"
    /\ response' = [response EXCEPT ![r] = promiseValue[r]]
    /\ pc' = [pc EXCEPT ![r] = "respond"]
    /\ promiseValue' = Collect(inFlightResponse, pc')
    /\ cycle' = [cycle EXCEPT ![r] = [NoCycle EXCEPT !.promise = r]]
    /\ calls' = [calls EXCEPT ![r] = <<>>]
    /\ UNCHANGED <<config, others, cachedResponse, inFlightResponse, now, files>>

\* getCachedOrFreshResult 507-511 of the request that started the fetch:
\* the marker is cleared and the result is returned to GET. The locals of
\* the fetch cycle are gone.
Finally(r) ==
    /\ pc[r] = "finally"
    /\ inFlightResponse' = NoPromise
    /\ response' = [response EXCEPT ![r] = promiseValue[r]]
    /\ pc' = [pc EXCEPT ![r] = "respond"]
    /\ promiseValue' = Collect(inFlightResponse', pc')
    /\ cycle' = [cycle EXCEPT ![r] = [NoCycle EXCEPT !.promise = r]]
    /\ calls' = [calls EXCEPT ![r] = <<>>]
    /\ UNCHANGED <<config, others, cachedResponse, now, files>>

\* The attached request reads the cache once the fetch has completed, in
\* place of taking the value of the promise.
ResolveFromCache(r) ==
    /\ pc[r] = "attached"
    /\ Settled(cycle[r].promise)
    /\ response' = [response EXCEPT ![r] = readFreshCache(cachedResponse, now)]
    /\ pc' = [pc EXCEPT ![r] = "respond"]
    /\ promiseValue' = Collect(inFlightResponse, pc')
    /\ UNCHANGED <<config, others, cachedResponse, inFlightResponse, now, files, cycle, calls>>

\* getCachedOrFreshResult 493 of a request that attached to a fetch in
\* flight: the promise has resolved and its value is returned to GET.
Resolve(r) ==
    /\ pc[r] = "attached"
    /\ Settled(cycle[r].promise)
    /\ response' = [response EXCEPT ![r] = promiseValue[cycle[r].promise]]
    /\ pc' = [pc EXCEPT ![r] = "respond"]
    /\ promiseValue' = Collect(inFlightResponse, pc')
    /\ UNCHANGED <<config, others, cachedResponse, inFlightResponse, now, files, cycle, calls>>

\* GET 518-523: the response is handed to the framework; the locals of the
\* request are gone.
Respond(r) ==
    /\ pc[r] = "respond"
    /\ pc' = [pc EXCEPT ![r] = "done"]
    /\ response' = [response EXCEPT ![r] = <<>>]
    /\ cycle' = [cycle EXCEPT ![r] = NoCycle]
    /\ UNCHANGED <<config, others, cachedResponse, inFlightResponse, now, files,
                   promiseValue, calls>>

\* Time passes. No continuation that runs as a microtask reads the clock,
\* so time passing between two of them is time passing after them.
Tick ==
    /\ now < MaxNow
    /\ ~MicrotaskPending
    /\ now' = now + 1
    /\ UNCHANGED <<config, others, cachedResponse, inFlightResponse, files, pc, cycle,
                   promiseValue, response, calls>>

\* The process is killed and started again: its memory and the requests it
\* was serving are lost, the files stay as they are.
Crash ==
    /\ \E r \in Requests : pc[r] \notin {"idle", "done", "lost"}
    /\ cachedResponse' = <<>>
    /\ inFlightResponse' = NoPromise
    /\ pc' = [r \in Requests |-> IF pc[r] \in {"idle", "done"} THEN pc[r] ELSE "lost"]
    /\ cycle' = [r \in Requests |-> NoCycle]
    /\ promiseValue' = [r \in Requests |-> <<>>]
    /\ response' = [r \in Requests |-> <<>>]
    /\ calls' = [r \in Requests |-> <<>>]
    /\ UNCHANGED <<config, others, now, files>>

Next ==
    \/ \E r \in Requests : Arrive(r)
    \/ \E r \in Requests : ReadStore(r)
    \/ \E r \in Requests : TokenResponse(r)
    \/ \E r \in Requests : PersistMkdir(r)
    \/ \E r \in Requests : PersistOpen(r)
    \/ \E r \in Requests : PersistWrite(r)
    \/ \E r \in Requests : PersistRename(r)
    \/ \E r \in Requests : SessionReturned(r)
    \/ \E r \in Requests : CurrentResponse(r)
    \/ \E r \in Requests : RecentResponse(r)
    \/ \E r \in Requests : Finally(r)
    \/ \E r \in Requests : Resolve(r)
    \/ \E r \in Requests : Respond(r)
    \/ Tick

Spec == Init /\ [][Next]_vars

\* The behaviours in which the process may be killed.
CrashSpec == Init /\ [][Next \/ Crash]_vars

\* What the runtime guarantees: a queued continuation runs, and the local
\* file system answers every call. Nothing makes Spotify answer.
Fairness ==
    \A r \in Requests :
        /\ WF_vars(ReadStore(r))
        /\ WF_vars(PersistMkdir(r))
        /\ WF_vars(PersistOpen(r))
        /\ WF_vars(PersistWrite(r))
        /\ WF_vars(PersistRename(r))
        /\ WF_vars(SessionReturned(r))
        /\ WF_vars(Finally(r))
        /\ WF_vars(Resolve(r))
        /\ WF_vars(Respond(r))

FairSpec == Spec /\ Fairness

(* ----------------------- parseTrack on its own ------------------------ *)

\* The now-playing proxy at rest, while a function is applied on its own.
SpotifyIdle ==
    /\ clientId = Null
    /\ clientSecret = Null
    /\ envRefreshToken = Null
    /\ ttlConfig = [response |-> NaN, error |-> NaN, unconfigured |-> NaN]
    /\ cachedResponse = <<>>
    /\ inFlightResponse = NoPromise
    /\ now = 0
    /\ storeFile = MissingFile
    /\ tempFile = MissingFile
    /\ pc = [r \in Requests |-> "idle"]
    /\ cycle = [r \in Requests |-> NoCycle]
    /\ promiseValue = [r \in Requests |-> <<>>]
    /\ response = [r \in Requests |-> <<>>]
    /\ calls = [r \in Requests |-> <<>>]

\* Raw track records, well formed, partial and malformed: the name missing
\* or not a string, empty, blank or padded; artists missing or not an array,
\* empty, with null entries and with blank names; the urls missing or not
\* strings, empty or padded.
RawNames == {Null, <<>>, <<" ">>, <<"S">>, <<" ", "S", " ">>}
RawArtists ==
    {<<>>, << <<>> >>, << <<Null>> >>, << << <<" ">> >> >>,
     << << <<"A">>, Null, <<"B", " ">> >> >>}
RawUrls == {Null, <<>>, <<"u">>, <<" ", "u">>}
RawImages == {Null, <<>>, <<"i">>}

RawTracks ==
    {<<>>} \cup
    {<<[name |-> n, artists |-> a, url |-> u, image |-> i]>> :
        n \in RawNames, a \in RawArtists, u \in RawUrls, i \in RawImages}

ParseInit ==
    /\ SpotifyIdle
    /\ HomelabIdle
    /\ input \in RawTracks
    /\ output = <<>>

\* parseTrack is applied to the raw track.
ParseTrack ==
    /\ output = <<>>
    /\ output' = <<parseTrack(input)>>
    /\ UNCHANGED <<spotify, input, homelab>>

ParseNext == ParseTrack

ParseSpec == ParseInit /\ [][ParseNext]_vars

(* ------------------------- normalizeStatus on its own ------------------ *)

\* The upper-case letters of the status texts and their lower-case forms.
UpperCase == <<"C", "D", "E", "G", "I", "N", "R", "U">>
LowerCase == <<"c", "d", "e", "g", "i", "n", "r", "u">>

\* String.prototype.toLowerCase
ToLowerCase(s) ==
    [i \in 1..Len(s) |->
        IF \E k \in 1..Len(UpperCase) : UpperCase[k] = s[i]
        THEN LowerCase[CHOOSE k \in 1..Len(UpperCase) : UpperCase[k] = s[i]]
        ELSE s[i]]

\* String.prototype.includes
Includes(s, sub) ==
    \E i \in 0..(Len(s) - Len(sub)) : SubSeq(s, i + 1, i + Len(sub)) = sub

Degraded == <<"d", "e", "g", "r", "a", "d", "e", "d">>
Running == <<"r", "u", "n", "n", "i", "n", "g">>

\* The keywords of normalizeStatus, by the class that lists them.
RunningKeywords ==
    {<<"r", "u", "n", "n", "i", "n", "g">>,
     <<"u", "p">>,
     <<"h", "e", "a", "l", "t", "h", "y">>,
     <<"a", "c", "t", "i", "v", "e">>}

DegradedKeywords ==
    {<<"d", "e", "g", "r", "a", "d", "e", "d">>,
     <<"w", "a", "r", "n", "i", "n", "g">>,
     <<"u", "n", "h", "e", "a", "l", "t", "h", "y">>,
     <<"e", "r", "r", "o", "r">>}

PendingKeywords ==
    {<<"p", "e", "n", "d", "i", "n", "g">>,
     <<"s", "t", "a", "r", "t", "i", "n", "g">>,
     <<"i", "n", "i", "t">>,
     <<"c", "r", "e", "a", "t", "e">>}

ExitedKeywords ==
    {<<"e", "x", "i", "t">>,
     <<"s", "t", "o", "p", "p", "e", "d">>,
     <<"d", "e", "a", "d">>,
     <<"i", "n", "a", "c", "t", "i", "v", "e">>}

\* The text contains one of the keywords.
IncludesAny(s, keywords) == \E k \in keywords : Includes(s, k)

\* The degraded keywords tested before the running ones.
normalizeStatusDegradedFirst(value) ==
    LET status == ToLowerCase(IF value = Null THEN <<>> ELSE value)
    IN  IF IncludesAny(status, DegradedKeywords) THEN "degraded"
        ELSE IF IncludesAny(status, RunningKeywords) THEN "running"
        ELSE IF IncludesAny(status, PendingKeywords) THEN "pending"
        ELSE IF IncludesAny(status, ExitedKeywords) THEN "exited"
        ELSE "running"

\* The keywords matched against the text as it was written, not in lower
\* case.
normalizeStatusCaseSensitive(value) ==
    LET status == IF value = Null THEN <<>> ELSE value
    IN  IF IncludesAny(status, RunningKeywords) THEN "running"
        ELSE IF IncludesAny(status, DegradedKeywords) THEN "degraded"
        ELSE IF IncludesAny(status, PendingKeywords) THEN "pending"
        ELSE IF IncludesAny(status, ExitedKeywords) THEN "exited"
        ELSE "running"

\* normalizeStatus: String(value || "") in lower case, classified by the
\* first group of keywords of which it contains one.
normalizeStatus(value) ==
    LET status == ToLowerCase(IF value = Null THEN <<>> ELSE value)
    IN  IF IncludesAny(status, RunningKeywords) THEN "running"
        ELSE IF IncludesAny(status, DegradedKeywords) THEN "degraded"
        ELSE IF IncludesAny(status, PendingKeywords) THEN "pending"
        ELSE IF IncludesAny(status, ExitedKeywords) THEN "exited"
        ELSE "running"

StatusKeywords ==
    RunningKeywords \cup DegradedKeywords \cup PendingKeywords \cup ExitedKeywords

\* Status values: missing, empty, one keyword, two keywords with a space
\* between them, and texts as container runtimes write them.
StatusTexts ==
    {Null, <<>>} \cup StatusKeywords
    \cup {a \o <<" ">> \o b : a, b \in StatusKeywords}
    \cup {<<"U", "p", " ", "5", " ", "m", "i", "n", "u", "t", "e", "s", " ", "(", "u", "n", "h", "e", "a", "l", "t", "h", "y", ")">>,
          <<"D", "e", "g", "r", "a", "d", "e", "d">>,
          <<"E", "x", "i", "t", "e", "d", " ", "(", "0", ")">>,
          <<"f", "o", "o">>,
          <<"R", "U", "N", "N", "I", "N", "G">>,
          <<"C", "r", "e", "a", "t", "e", "d">>}

StatusInit ==
    /\ SpotifyIdle
    /\ HomelabIdle
    /\ input \in StatusTexts
    /\ output = <<>>

\* normalizeStatus is applied to the status value.
NormalizeStatus ==
    /\ output = <<>>
    /\ output' = <<normalizeStatus(input)>>
    /\ UNCHANGED <<spotify, input, homelab>>

StatusNext == NormalizeStatus

StatusSpec == StatusInit /\ [][StatusNext]_vars

(* ------------------------ /api/homelab: the data ----------------------- *)

\* A row of a snapshot. Its display fields (image, cpu, memory, uptime and
\* the container count of a pod) are formatted from the one record and take
\* no part in what follows; they are left out.
Row(type, name, status) == [type |-> type, name |-> name, status |-> status]

\* mockRows of the system-scoped build: five containers.
MockContainerRows ==
    <<Row("containers", "traefik-edge", "running"),
      Row("containers", "gitea-app", "running"),
      Row("containers", "vaultwarden", "degraded"),
      Row("containers", "grafana", "running"),
      Row("containers", "legacy-registry", "exited")>>

\* mockRows of homelab.ts has four pods after them.
MockPodRows ==
    <<Row("pods", "edge-stack", "running"),
      Row("pods", "forge-stack", "running"),
      Row("pods", "auth-stack", "degraded"),
      Row("pods", "backup-stack", "pending")>>

mockRows(v) ==
    IF v = "collections" THEN MockContainerRows \o MockPodRows ELSE MockContainerRows

\* The metrics of the mock snapshot, and the value buildMetrics puts where
\* the system record has no number.
DefaultMetrics == [cpu |-> 34, memory |-> 62, disk |-> 48, thermal |-> 57]

\* pickString(raw, paths, fallback) and asString(value) || fallback on a
\* field that is a string or Null: the trimmed text, or the fallback when it
\* is missing or blank.
pickString(value, fallback) ==
    IF value = Null \/ Trim(value) = <<>> THEN fallback ELSE Trim(value)

\* A name is a text that is not taken apart; "" is a missing or blank name.
pickName(value, fallback) == IF value = "" THEN fallback ELSE value

\* normalizeContainerRow and normalizePodRow
normalizeContainerRow(raw) ==
    Row("containers", pickName(raw.name, "unknown-container"),
        normalizeStatus(pickString(raw.status, Running)))

normalizePodRow(raw) ==
    Row("pods", pickName(raw.name, "unknown-pod"),
        normalizeStatus(pickString(raw.status, Running)))

\* records.map(normalizeContainerRow) and records.map(normalizePodRow)
normalizeContainerRows(records) ==
    [i \in 1..Len(records) |-> normalizeContainerRow(records[i])]

normalizePodRows(records) ==
    [i \in 1..Len(records) |-> normalizePodRow(records[i])]

\* The records of kind (containers, pods) embedded in the system records:
\* systems.flatMap over the array at system[kind], if there is one.
RECURSIVE Embedded(_, _)
Embedded(systems, kind) ==
    IF systems = <<>> THEN <<>>
    ELSE LET source == Head(systems)[kind]
         IN  (IF source # <<>> THEN source[1] ELSE <<>>)
             \o Embedded(Tail(systems), kind)

\* Embedded records used only when both direct lists are empty.
buildRuntimeRowsBothEmpty(systems, containerRecords, podRecords) ==
    IF Len(containerRecords) = 0 /\ Len(podRecords) = 0
    THEN normalizeContainerRows(Embedded(systems, "containers"))
         \o normalizePodRows(Embedded(systems, "pods"))
    ELSE normalizeContainerRows(containerRecords) \o normalizePodRows(podRecords)

\* buildRuntimeRows (homelab.ts 357-391)
buildRuntimeRows(systems, containerRecords, podRecords) ==
    LET containers == normalizeContainerRows(containerRecords)
        pods == normalizePodRows(podRecords)
        useEmbedded == Len(containers) = 0 \/ Len(pods) = 0
    IN  (IF useEmbedded /\ Len(containers) = 0
         THEN normalizeContainerRows(Embedded(systems, "containers"))
         ELSE containers)
        \o
        (IF useEmbedded /\ Len(pods) = 0
         THEN normalizePodRows(Embedded(systems, "pods"))
         ELSE pods)

\* rows.filter(...).length, for the three filters of buildSummary.
CountContainers(rows) ==
    Cardinality({i \in 1..Len(rows) : rows[i].type = "containers"})

CountPods(rows) == Cardinality({i \in 1..Len(rows) : rows[i].type = "pods"})

CountAlerts(rows) ==
    Cardinality({i \in 1..Len(rows) : rows[i].status \in {"degraded", "pending"}})

\* buildSummary of homelab.ts (407-417)
buildSummary(systems, rows) ==
    [hosts |-> Len(systems),
     containers |-> CountContainers(rows),
     pods |-> CountPods(rows),
     alerts |-> CountAlerts(rows)]

\* A number or, when there is none, the fallback: value ?? fallback.
OrElse(value, fallback) == IF value # <<>> THEN value[1] ELSE fallback

\* buildMetrics from the record it reads (nullable): the numbers at info.cpu,
\* info.mp, info.dp and info.temp, each replaced where it is missing.
metricsOf(primary) ==
    IF primary = <<>> THEN DefaultMetrics
    ELSE [cpu |-> OrElse(primary[1].info.cpu, 34),
          memory |-> OrElse(primary[1].info.mp, 62),
          disk |-> OrElse(primary[1].info.dp, 48),
          thermal |-> OrElse(primary[1].info.temp, 57)]

\* buildMetrics of homelab.ts (393-405): the first system that is running,
\* or else the first system.
buildMetrics(systems) ==
    LET running == {i \in 1..Len(systems) :
                        normalizeStatus(systems[i].status) = "running"}
    IN  IF systems = <<>> THEN metricsOf(<<>>)
        ELSE IF running # {}
             THEN metricsOf(<<systems[CHOOSE i \in running : \A j \in running : i <= j]>>)
             ELSE metricsOf(<<systems[1]>>)

\* A snapshot, without its timestamp syncedAt. system is nullable.
Snapshot(source, summary, metrics, rows, system) ==
    [source |-> source, summary |-> summary, metrics |-> metrics, rows |-> rows,
     system |-> system]

\* The system block of the mock snapshot of the system-scoped build, of its
\* fields name, host and cpu.
MockSystem == [name |-> "pi1", host |-> "beszel", cpu |-> "Cortex-A72"]

\* buildMockSnapshot of homelab.ts (419-427) and of the system-scoped build.
buildMockSnapshot(v) ==
    IF v = "collections"
    THEN Snapshot("mock", buildSummary(<<>>, mockRows(v)), DefaultMetrics,
                  mockRows(v), <<>>)
    ELSE Snapshot("mock",
                  [hosts |-> 1, containers |-> Len(mockRows(v)), pods |-> 0,
                   alerts |-> CountAlerts(mockRows(v))],
                  DefaultMetrics, mockRows(v), <<MockSystem>>)

(* ---------------------- /api/homelab: the backend ---------------------- *)

Kinds == {"containers", "pods"}

\* COLLECTION_CANDIDATES
COLLECTION_CANDIDATES ==
    [containers |-> <<"containers", "container_stats">>,
     pods |-> <<"pods", "podman_pods">>]

Unhealthy == <<"u", "n", "h", "e", "a", "l", "t", "h", "y">>
Down == <<"d", "o", "w", "n">>

\* Raw container and pod records as Beszel may send them: a name ("" when it
\* is missing or blank) and a status text (or Null).
RawRecord(name, status) == [name |-> name, status |-> status]

ContainerLists ==
    {<<>>,
     <<RawRecord("web", Running)>>,
     <<RawRecord("", Null)>>,
     <<RawRecord("web", Running), RawRecord("db", Unhealthy)>>}

PodLists ==
    {<<>>,
     <<RawRecord("stack", Running)>>,
     <<RawRecord("", Down), RawRecord("stack", Null)>>}

\* The numbers of a system record's info, each nullable.
Info(cpu, mp, dp, temp, dt) == [cpu |-> cpu, mp |-> mp, dp |-> dp, temp |-> temp, dt |-> dt]

NoInfo == Info(<<>>, <<>>, <<>>, <<>>, <<>>)
CpuInfo == Info(<<7>>, <<>>, <<>>, <<>>, <<>>)
FullInfo == Info(<<12>>, <<40>>, <<55>>, <<61>>, <<63>>)

\* A system record: id and name ("" when missing), status, info, and the
\* container and pod records embedded in it (nullable). It has no host.
SystemRecord(id, name, status, info, containers, pods) ==
    [id |-> id, name |-> name, status |-> status, info |-> info,
     containers |-> containers, pods |-> pods]

PlainSystem == SystemRecord("s1", "pi1", Running, FullInfo, <<>>, <<>>)
DownSystem == SystemRecord("s2", "pi2", Down, CpuInfo, <<>>, <<>>)
NoIdSystem == SystemRecord("", "pi1", Null, NoInfo, <<>>, <<>>)
EmbeddingSystem ==
    SystemRecord("s3", "", Null, NoInfo,
                 << <<RawRecord("inner", Unhealthy)>> >>,
                 << <<RawRecord("innerpod", Running)>> >>)
HalfEmbeddingSystem ==
    SystemRecord("s4", "pi4", Running, FullInfo,
                 << <<RawRecord("inner", Running)>> >>, <<>>)

SystemLists ==
    {<<>>,
     <<PlainSystem>>,
     <<NoIdSystem>>,
     <<DownSystem, PlainSystem>>,
     <<EmbeddingSystem>>,
     <<HalfEmbeddingSystem>>}

\* A system_details record: hostname and cpu ("" when missing).
DetailsRecord(hostname, cpu) == [hostname |-> hostname, cpu |-> cpu]

DetailLists ==
    {<<>>,
     <<DetailsRecord("pi1.lan", "Cortex-A72")>>,
     <<DetailsRecord("", "")>>}

\* What a fetch comes to: it rejects with an error (the network failed, or
\* the timeout aborted it), or it resolves to a response with a status and a
\* body that is JSON or not; items is the items array of a JSON body
\* (nullable).
Rejected(error) == [error |-> error, status |-> 0, json |-> FALSE, items |-> <<>>]
Answer(status, json, items) ==
    [error |-> "", status |-> status, json |-> json, items |-> items]

BeszelAnswers(lists) ==
    {Rejected("fetch failed"), Rejected("The operation was aborted"),
     Answer(404, FALSE, <<>>), Answer(500, FALSE, <<>>),
     Answer(200, FALSE, <<>>), Answer(200, TRUE, <<>>)}
    \cup {Answer(200, TRUE, <<list>>) : list \in lists}

\* What an awaited call comes to: it threw error, or it returned value
\* (nullable).
Threw(error) == [threw |-> TRUE, error |-> error, value |-> <<>>]
Resolved(value) == [threw |-> FALSE, error |-> "", value |-> value]

\* fetchJson: the parsed body, null on 404; throws what fetch rejected with,
\* on another status that is not ok, and on a body that is not JSON.
fetchJson(answer) ==
    IF answer.error # "" THEN Threw(answer.error)
    ELSE IF answer.status = 404 THEN Resolved(<<>>)
    ELSE IF answer.status # 200 THEN Threw("HTTP status not ok")
    ELSE IF ~answer.json THEN Threw("JSON Parse error")
    ELSE Resolved(<<[items |-> answer.items]>>)

\* fetchCollection: the items array, or null when there is none.
fetchCollection(answer) ==
    LET data == fetchJson(answer)
    IN  IF data.threw THEN data
        ELSE IF data.value = <<>> \/ data.value[1].items = <<>> THEN Resolved(<<>>)
        ELSE Resolved(data.value[1].items)

\* fetchSingleRecordByFilter: the first item, or null when there is none.
\* Where there is none, its log line reads the identifier name, which the
\* module does not declare: a ReferenceError unless the runtime has a global
\* of that name.
fetchSingleRecordByFilter(answer, nameDefined) ==
    LET items == fetchCollection(answer)
    IN  IF items.threw THEN items
        ELSE IF items.value = <<>> \/ items.value[1] = <<>>
             THEN IF nameDefined THEN Resolved(<<>>)
                  ELSE Threw("ReferenceError: name is not defined")
        ELSE Resolved(<<items.value[1][1]>>)

\* What the authentication call comes to; token is the token of a JSON body
\* (nullable).
AuthAnswer(error, status, json, token) ==
    [error |-> error, status |-> status, json |-> json, token |-> token]

AuthAnswers ==
    {AuthAnswer("fetch failed", 0, FALSE, <<>>),
     AuthAnswer("", 401, TRUE, <<>>),
     AuthAnswer("", 200, FALSE, <<>>),
     AuthAnswer("", 200, TRUE, <<>>),
     AuthAnswer("", 200, TRUE, << <<" ">> >>),
     AuthAnswer("", 200, TRUE, << <<"t">> >>)}

\* resolveBeszelAuthToken, once its fetch has come to answer.
resolveBeszelAuthToken(answer) ==
    IF answer.error # "" THEN Threw(answer.error)
    ELSE IF answer.status # 200 THEN Threw("PocketBase authentication failed")
    ELSE IF ~answer.json THEN Threw("JSON Parse error")
    ELSE IF answer.token = <<>> \/ Trim(answer.token[1]) = <<>>
         THEN Threw("PocketBase authentication response is missing token")
    ELSE Resolved(answer.token)

\* buildMetrics and buildSummary of the system-scoped build, on the system
\* record (not null where they are called).
buildSystemMetrics(systemRecord) ==
    [cpu |-> OrElse(systemRecord.info.cpu, 34),
     memory |-> OrElse(systemRecord.info.mp, 62),
     disk |-> OrElse(systemRecord.info.dp, 48),
     thermal |-> OrElse(systemRecord.info.dt, 57)]

buildSystemSummary(systemRecord, rows) ==
    [hosts |-> 1, containers |-> Len(rows), pods |-> 0,
     alerts |-> CountAlerts(rows)]

\* buildSystemDetails, of its fields name, host and cpu; detailsRecord is
\* nullable, the system record is not null where it is called.
buildSystemDetails(systemName, systemRecord, detailsRecord) ==
    [name |-> pickName(systemRecord.name, systemName),
     host |-> IF detailsRecord # <<>> /\ detailsRecord[1].hostname # ""
              THEN detailsRecord[1].hostname ELSE "n/a",
     cpu |-> IF detailsRecord # <<>> THEN detailsRecord[1].cpu ELSE ""]

(* ---------------------- /api/homelab: the request ---------------------- *)

\* The loop of fetchFirstCollection over the candidates of one kind: the
\* index of the candidate it awaits, the candidates it has requested with
\* the answers they came to, and what it returned once it has.
Loop(index, tried, answers, done, items) ==
    [index |-> index, tried |-> tried, answers |-> answers, done |-> done,
     items |-> items]

\* The locals of buildBeszelSnapshot, the answer the lookup of the system's
\* details came to (nullable), and the error GET caught ("" if none).
Locals(authToken, systems, loops, rows, detailsAnswer, error) ==
    [authToken |-> authToken, systems |-> systems, loops |-> loops, rows |-> rows,
     detailsAnswer |-> detailsAnswer, error |-> error]

NoLoops == [kind \in Kinds |-> Loop(1, <<>>, <<>>, FALSE, <<>>)]

\* A candidate is taken only if its items array is not empty.
SelectedIfNotEmpty(items) ==
    ~items.threw /\ items.value # <<>> /\ items.value[1] # <<>>

\* fetchFirstCollection takes the candidate: fetchCollection did not throw
\* and its result is not null.
Selected(items) == ~items.threw /\ items.value # <<>>

\* The catch of GET answering with whatever rows were built so far.
CaughtSnapshotKeepsRows(v, rows) ==
    Snapshot("mock", buildMockSnapshot(v).summary, DefaultMetrics, rows, <<>>)

\* The catch of GET: the mock snapshot.
CaughtSnapshot(v, rows) == buildMockSnapshot(v)

\* buildBeszelSnapshot, with the given locals, throws error; GET catches it.
FallbackFrom(locals, error) ==
    /\ h' = <<[locals EXCEPT !.error = error]>>
    /\ snapshot' = <<CaughtSnapshot(variant, locals.rows)>>
    /\ hpc' = "respond"

Fallback(error) == FallbackFrom(h[1], error)

\* GET starts buildBeszelSnapshot. The collections build requests the
\* systems collection; the system-scoped build authenticates first when
\* email and password are both configured.
HomelabArrive ==
    /\ hpc = "idle"
    /\ h' = <<Locals(<<>>, <<>>, NoLoops, <<>>, <<>>, "")>>
    /\ \/ /\ variant = "collections"
          /\ hpc' = "systems"
       \/ /\ variant = "system"
          /\ \E hasEmail \in BOOLEAN, hasPassword \in BOOLEAN :
                hpc' = IF ~hasEmail \/ ~hasPassword THEN "systems" ELSE "auth"
    /\ UNCHANGED <<spotify, input, output, variant, snapshot, homelabResponse>>

\* The authentication call comes to an answer.
AuthResponse ==
    /\ hpc = "auth"
    /\ \E answer \in AuthAnswers :
          LET token == resolveBeszelAuthToken(answer)
          IN  IF token.threw THEN Fallback(token.error)
              ELSE /\ h' = <<[h[1] EXCEPT !.authToken = token.value]>>
                   /\ hpc' = "systems"
                   /\ UNCHANGED snapshot
    /\ UNCHANGED <<spotify, input, output, variant, homelabResponse>>

\* The collections build: the systems collection comes to an answer.
SystemsResponse ==
    /\ hpc = "systems"
    /\ variant = "collections"
    /\ \E answer \in BeszelAnswers(SystemLists) :
          LET systems == fetchCollection(answer)
          IN  IF systems.threw THEN Fallback(systems.error)
              ELSE IF systems.value = <<>> \/ systems.value[1] = <<>>
                   THEN Fallback("No systems from Beszel")
              ELSE /\ h' = <<[h[1] EXCEPT !.systems = systems.value[1]]>>
                   /\ hpc' = "collections"
                   /\ UNCHANGED snapshot
    /\ UNCHANGED <<spotify, input, output, variant, homelabResponse>>

\* The rows of the snapshot of the collections build (homelab.ts 465).
SnapshotRows(rows, v) == IF Len(rows) > 0 THEN rows ELSE mockRows(v)

\* The collections build: one candidate of one kind comes to an answer.
\* When both loops have returned, Promise.all resolves and the snapshot is
\* built.
CandidateResponse(kind) ==
    /\ hpc = "collections"
    /\ variant = "collections"
    /\ ~h[1].loops[kind].done
    /\ \E answer \in BeszelAnswers(IF kind = "containers" THEN ContainerLists ELSE PodLists) :
          LET loop == h[1].loops[kind]
              candidates == COLLECTION_CANDIDATES[kind]
              tried == Append(loop.tried, candidates[loop.index])
              answers == Append(loop.answers, answer)
              items == fetchCollection(answer)
              after ==
                  IF Selected(items)
                  THEN Loop(loop.index, tried, answers, TRUE, items.value[1])
                  ELSE IF loop.index < Len(candidates)
                       THEN Loop(loop.index + 1, tried, answers, FALSE, <<>>)
                       ELSE Loop(loop.index, tried, answers, TRUE, <<>>)
              loops == [h[1].loops EXCEPT ![kind] = after]
          IN  IF \A k \in Kinds : loops[k].done
              THEN LET systems == h[1].systems
                       rows == buildRuntimeRows(systems, loops["containers"].items,
                                                loops["pods"].items)
                   IN  /\ h' = <<[h[1] EXCEPT !.loops = loops, !.rows = rows]>>
                       /\ snapshot' = <<Snapshot("beszel", buildSummary(systems, rows),
                                                 buildMetrics(systems),
                                                 SnapshotRows(rows, variant), <<>>)>>
                       /\ hpc' = "respond"
              ELSE /\ h' = <<[h[1] EXCEPT !.loops = loops]>>
                   /\ UNCHANGED <<hpc, snapshot>>
    /\ UNCHANGED <<spotify, input, output, variant, homelabResponse>>

\* BESZEL_SYSTEM_NAME_FALLBACK; BESZEL_SYSTEM_NAME is not set.
BESZEL_SYSTEM_NAME_FALLBACK == "pi1"

\* The system-scoped build: the lookup of the system by name comes to an
\* answer.
SystemRecordResponse ==
    /\ hpc = "systems"
    /\ variant = "system"
    /\ \E answer \in BeszelAnswers(SystemLists), nameDefined \in BOOLEAN :
          LET systemRecord == fetchSingleRecordByFilter(answer, nameDefined)
          IN  IF systemRecord.threw THEN Fallback(systemRecord.error)
              ELSE IF systemRecord.value = <<>> THEN Fallback("System not found")
              ELSE IF systemRecord.value[1].id = ""
                   THEN Fallback("System record is missing id")
              ELSE /\ h' = <<[h[1] EXCEPT !.systems = systemRecord.value]>>
                   /\ hpc' = "containers"
                   /\ UNCHANGED snapshot
    /\ UNCHANGED <<spotify, input, output, variant, homelabResponse>>

\* The system-scoped build: the containers of the system come to an answer.
ContainersResponse ==
    /\ hpc = "containers"
    /\ \E answer \in BeszelAnswers(ContainerLists) :
          LET containers == fetchCollection(answer)
          IN  IF containers.threw THEN Fallback(containers.error)
              ELSE IF containers.value = <<>>
                   THEN Fallback("Containers collection unavailable")
              ELSE /\ h' = <<[h[1] EXCEPT
                                !.rows = normalizeContainerRows(containers.value[1])]>>
                   /\ hpc' = "details"
                   /\ UNCHANGED snapshot
    /\ UNCHANGED <<spotify, input, output, variant, homelabResponse>>

\* The system-scoped build: the lookup of the system's details comes to an
\* answer, and the snapshot is built.
DetailsResponse ==
    /\ hpc = "details"
    /\ \E answer \in BeszelAnswers(DetailLists), nameDefined \in BOOLEAN :
          LET detailsRecord == fetchSingleRecordByFilter(answer, nameDefined)
              systemRecord == h[1].systems[1]
              rows == h[1].rows
              locals == [h[1] EXCEPT !.detailsAnswer = <<answer>>]
          IN  IF detailsRecord.threw THEN FallbackFrom(locals, detailsRecord.error)
              ELSE /\ snapshot' =
                          <<Snapshot("beszel", buildSystemSummary(systemRecord, rows),
                                     buildSystemMetrics(systemRecord), rows,
                                     <<buildSystemDetails(BESZEL_SYSTEM_NAME_FALLBACK,
                                                          systemRecord,
                                                          detailsRecord.value)>>)>>
                   /\ hpc' = "respond"
                   /\ h' = <<locals>>
    /\ UNCHANGED <<spotify, input, output, variant, homelabResponse>>

\* GET returns the snapshot.
HomelabRespond ==
    /\ hpc = "respond"
    /\ homelabResponse' = <<[status |-> 200, body |-> snapshot[1]]>>
    /\ hpc' = "done"
    /\ UNCHANGED <<spotify, input, output, variant, h, snapshot>>

HomelabInit ==
    /\ SpotifyIdle
    /\ input = <<>>
    /\ output = <<>>
    /\ variant \in {"collections", "system"}
    /\ hpc = "idle"
    /\ h = <<>>
    /\ snapshot = <<>>
    /\ homelabResponse = <<>>

HomelabNext ==
    \/ HomelabArrive
    \/ AuthResponse
    \/ SystemsResponse
    \/ \E kind \in Kinds : CandidateResponse(kind)
    \/ SystemRecordResponse
    \/ ContainersResponse
    \/ DetailsResponse
    \/ HomelabRespond

HomelabSpec == HomelabInit /\ [][HomelabNext]_vars

(* ------------------------------ properties ---------------------------- *)

\* Request r is running a live fetch cycle: fetchLiveResult has not returned.
InCycle(r) ==
    pc[r] \in {"readStore", "token", "mkdir", "write", "writing", "rename",
               "session", "current", "recent"}

LiveCycles == {r \in Requests : InCycle(r)}

\* The cache slot holds a result that has not expired.
CacheFresh == cachedResponse # <<>> /\ now < cachedResponse[1].expiresAt

\* The cached status and payload.
CachedResult == EndpointResult(cachedResponse[1].status, cachedResponse[1].payload)

\* C1: at every moment at most one live fetch cycle is in progress; the
\* request running it is the one the in-flight marker names, and every
\* request that arrived meanwhile without a fresh cached result is attached
\* to the promise of that one fetch.
C1_AtMostOneLiveFetch ==
    /\ Cardinality(LiveCycles) <= 1
    /\ \A r \in Requests : InCycle(r) => inFlightResponse = r /\ cycle[r].promise = r
    /\ \A q \in Requests :
         pc[q] = "attached" =>
            /\ cycle[q].promise \in Requests \ {q}
            /\ \/ InCycle(cycle[q].promise)
               \/ Settled(cycle[q].promise)
            /\ \A q2 \in Requests :
                 pc[q2] = "attached" => cycle[q2].promise = cycle[q].promise

\* C1 witness: on a cold start one request runs the fetch and another is
\* attached to it.
C1_Witness ==
    \E r, q \in Requests :
        /\ cachedResponse = <<>>
        /\ InCycle(r)
        /\ pc[q] = "attached"
        /\ cycle[q].promise = r

\* C2: a request that arrives while the cached result is fresh is answered
\* with exactly the cached status and payload, and its arrival makes no
\* outbound call, touches no file and changes neither the cache nor the
\* in-flight marker; a request that arrives when no fresh result is cached
\* starts the fetch if none is in flight and otherwise attaches to the one
\* in flight, so that one fetch is started.
C2_CacheUntilExpiry ==
    [][\A r \in Requests :
         (pc[r] = "idle" /\ pc'[r] # "idle") =>
            IF CacheFresh
            THEN /\ pc'[r] = "respond"
                 /\ response'[r] = <<CachedResult>>
                 /\ UNCHANGED <<cachedResponse, inFlightResponse, files, calls,
                                promiseValue>>
            ELSE /\ pc'[r] # "respond"
                 /\ IF inFlightResponse = NoPromise
                    THEN inFlightResponse' = r /\ cycle'[r].promise = r
                    ELSE /\ pc'[r] = "attached"
                         /\ cycle'[r].promise = inFlightResponse
                         /\ UNCHANGED <<inFlightResponse, calls>>
                 /\ Cardinality(LiveCycles') <= 1
      ]_vars

\* C2 witness: after the cached result of an earlier request has expired, a
\* request runs a fresh fetch.
C2_Witness ==
    \E r \in Requests :
        /\ cachedResponse # <<>>
        /\ now >= cachedResponse[1].expiresAt
        /\ cachedResponse[1].payload.source = "spotify"
        /\ InCycle(r)

\* A request has arrived and has not been answered.
Unanswered(r) == pc[r] \notin {"idle", "done"}

\* C3: every request that has arrived is eventually answered, whatever the
\* upstream does, because every outbound call is given up after a timeout.
C3_EveryRequestAnswered ==
    \A r \in Requests : Unanswered(r) ~> (pc[r] = "done")

\* C4: the store file never holds a partial record, and whenever it changes
\* it changes, in one step, to the complete record being persisted; a kill
\* of the process at any point leaves it as it was.
C4_StoreAtomic ==
    [][/\ storeFile'.kind # "partial"
       /\ storeFile' # storeFile =>
            \E r \in Requests :
                /\ pc[r] = "rename"
                /\ storeFile' = CompleteFile(cycle[r].payload)
      ]_vars

\* C4 witness: the process was killed after the temporary file was written
\* and before the rename; the store still holds the record it started with.
C4_Witness ==
    /\ \E r \in Requests : pc[r] = "lost"
    /\ tempFile.kind = "complete"
    /\ storeFile = CompleteFile([refreshToken |-> StoredToken, updatedAt |-> 0])
    /\ tempFile.refreshToken # storeFile.refreshToken

\* Request r is inside resolveSpotifySession, or fetchLiveResult has just
\* caught its error: the locals of the session are in scope.
InSession(r) ==
    \/ pc[r] \in {"token", "mkdir", "write", "writing", "rename", "session"}
    \/ pc[r] = "finally" /\ clientConfigured /\ cycle[r].accessToken = Null

\* The exchange of some candidate has succeeded in r's session.
Exchanged(r) == pc[r] \in {"mkdir", "write", "writing", "rename", "session"}

\* The number of times r's cycle has made call op.
Count(r, op) == Cardinality({i \in 1..Len(calls[r]) : calls[r][i] = op})

\* C5: the candidates are at most two, the stored token first and the token
\* of the environment second, the latter left out when it equals the stored
\* one; they are exchanged in that order; every exchange before a successful
\* one has failed, the successful one supplies the access token, and no
\* token request follows it in the cycle.
C5_CandidatesInOrder ==
    \A r \in Requests :
        LET c == cycle[r]
            stored == c.storedRefreshToken
            env == normalizeToken(envRefreshToken)
            withEnv == env # Null /\ env # stored
            n == Len(c.exchanged)
        IN  /\ InSession(r) =>
                /\ Len(c.candidates) =
                       (IF stored # Null THEN 1 ELSE 0) + (IF withEnv THEN 1 ELSE 0)
                /\ Len(c.candidates) <= 2
                /\ stored # Null =>
                       c.candidates[1] = [source |-> "stored", value |-> stored]
                /\ withEnv =>
                       c.candidates[Len(c.candidates)] = [source |-> "env", value |-> env]
                /\ n = c.index
                /\ \A i \in 1..n : c.exchanged[i].candidate = c.candidates[i]
                /\ \A i \in 1..(n - 1) : c.exchanged[i].outcome = "failed"
                /\ Exchanged(r) =>
                       /\ c.exchanged[n].outcome = "ok"
                       /\ c.accessToken = AccessTokenFor(c.candidates[n].value)
            /\ \A i, j \in 1..Len(calls[r]) :
                   (i < j /\ calls[r][i] \in {"persist", "current"}) =>
                       calls[r][j] # "token"

\* C5 witness: of two candidates the first was exchanged with success and the
\* session is returned without the second having been tried.
C5_Witness ==
    \E r \in Requests :
        /\ pc[r] = "session"
        /\ Len(cycle[r].candidates) = 2
        /\ Len(cycle[r].exchanged) = 1

\* C6: after a successful exchange that returned a rotated refresh token,
\* persistRefreshToken has been called exactly if the rotated token differs
\* from the token read from the store at the start of the cycle; when it was
\* called and did not fail, the store holds the rotated token.
C6_PersistIffDiffers ==
    \A r \in Requests :
        LET c == cycle[r]
        IN  (Exchanged(r) /\ c.rotatedRefreshToken # Null) =>
                /\ Count(r, "persist") = 1 <=> c.rotatedRefreshToken # c.storedRefreshToken
                /\ Count(r, "persist") <= 1
                /\ (pc[r] = "session" /\ Count(r, "persist") = 1 /\ ~c.persistFailed) =>
                       /\ storeFile.kind = "complete"
                       /\ storeFile.refreshToken = c.rotatedRefreshToken

\* C6 witness: a rotated token that differs from the stored one has been
\* written to the store.
C6_Witness ==
    \E r \in Requests :
        /\ pc[r] = "session"
        /\ cycle[r].storedRefreshToken = StoredToken
        /\ cycle[r].rotatedRefreshToken \notin {Null, StoredToken}
        /\ storeFile.refreshToken = cycle[r].rotatedRefreshToken

\* C7: when persistRefreshToken throws, the session is returned all the same
\* with the access token of the exchange that succeeded, no further candidate
\* is exchanged, and the next step of the cycle is the request to
\* currently-playing.
C7_PersistFailureNotFatal ==
    /\ [](\A r \in Requests :
            LET c == cycle[r]
            IN  c.persistFailed =>
                    /\ pc[r] = "session"
                    /\ Len(c.exchanged) = c.index
                    /\ c.exchanged[c.index].outcome = "ok"
                    /\ c.accessToken = AccessTokenFor(c.candidates[c.index].value))
    /\ [][\A r \in Requests :
            (cycle[r].persistFailed /\ pc'[r] # pc[r]) =>
                /\ pc'[r] = "current"
                /\ cycle'[r].accessToken = cycle[r].accessToken
                /\ calls'[r] = Append(calls[r], "current")
         ]_vars

\* C7 witness: the write of the temporary file failed part way and the
\* session is returned, a second candidate left untried.
C7_Witness ==
    \E r \in Requests :
        /\ pc[r] = "session"
        /\ cycle[r].persistFailed
        /\ tempFile.kind = "partial"
        /\ Len(cycle[r].candidates) = 2
        /\ cycle[r].index = 1

\* fetchLiveResult of request r has returned; its locals are in scope.
Returned(r) == pc[r] = "finally" /\ clientConfigured

\* The result fetchLiveResult of request r returned.
Result(r) == promiseValue[r][1]

IsError(result) == result.status = 502 /\ result.payload.source = "error"

\* The answer is a response with that status.
HasStatus(answer, status) ==
    answer # <<>> /\ answer[1].kind = "response" /\ answer[1].status = status

\* The answer is a 200 whose body is JSON.
HasBody(answer) == HasStatus(answer, 200) /\ answer[1].json

\* The track of a body of currently-playing has a title or an artist.
HasTrack(body) ==
    parseTrack(body.item).title # Null \/ parseTrack(body.item).artist # Null

\* The first item of a body of recently-played (nullable).
FirstItem(body) ==
    IF body.items # <<>> /\ body.items[1] # <<>> THEN <<body.items[1][1]>> ELSE <<>>

\* The track fields of a payload are those parseTrack gives for item.
TrackIs(payload, item) ==
    /\ payload.title = parseTrack(item).title
    /\ payload.artist = parseTrack(item).artist
    /\ payload.songUrl = parseTrack(item).songUrl
    /\ payload.albumImageUrl = parseTrack(item).albumImageUrl

\* C8: a cycle that found no candidate, or whose every exchange failed, ends
\* as source "error" with status 502 without a request to currently-playing
\* or recently-played; a cycle whose currently-playing answer is neither 200
\* nor 204 (or whose fetch threw) ends the same way without a request to
\* recently-played; a failing recently-played ends it the same way; and no
\* call is made twice in a cycle, a token request being made at most once
\* per candidate.
C8_StopsAtFirstFailure ==
    \A r \in Requests :
        LET c == cycle[r]
        IN  /\ \A op \in {"readStore", "persist", "current", "recent"} : Count(r, op) <= 1
            /\ Count(r, "token") <= 2
            /\ InSession(r) =>
                   /\ Count(r, "token") = Len(c.exchanged)
                   /\ \A i, j \in 1..Len(c.exchanged) :
                          i # j => c.exchanged[i].candidate # c.exchanged[j].candidate
            /\ Returned(r) =>
                   /\ c.accessToken = Null =>
                          /\ IsError(Result(r))
                          /\ Count(r, "current") = 0
                          /\ Count(r, "recent") = 0
                   /\ (c.current # <<>> /\ ~HasStatus(c.current, 200)
                                        /\ ~HasStatus(c.current, 204)) =>
                          /\ IsError(Result(r))
                          /\ Count(r, "recent") = 0
                   /\ (c.recent # <<>> /\ ~HasStatus(c.recent, 200)
                                       /\ ~HasStatus(c.recent, 204)) =>
                          IsError(Result(r))
                   /\ Result(r).status = 502 <=> Result(r).payload.source = "error"

\* C8 witness: currently-playing answered 401 and the cycle ended as an error.
C8_Witness ==
    \E r \in Requests :
        /\ Returned(r)
        /\ HasStatus(cycle[r].current, 401)
        /\ Result(r) = ErrorResult

\* C9 as stated: a 200 of currently-playing with a track gives source
\* "spotify", isPlaying true and playedAt null, without a request to
\* recently-played.
C9_TrackIsPlaying ==
    \A r \in Requests :
        (Returned(r) /\ HasBody(cycle[r].current)
                     /\ HasTrack(cycle[r].current[1].body)) =>
            /\ Result(r).status = 200
            /\ Result(r).payload.source = "spotify"
            /\ Result(r).payload.isPlaying = TRUE
            /\ Result(r).payload.playedAt = Null
            /\ Count(r, "recent") = 0

\* C9 amended: a 200 of currently-playing with a track gives source
\* "spotify", that track, playedAt null and isPlaying equal to the is_playing
\* flag of the answer (false when the flag is false or absent), without a
\* request to recently-played.
C9_TrackWithPlayingFlag ==
    \A r \in Requests :
        (Returned(r) /\ HasBody(cycle[r].current)
                     /\ HasTrack(cycle[r].current[1].body)) =>
            LET body == cycle[r].current[1].body
            IN  /\ Result(r).status = 200
                /\ Result(r).payload.source = "spotify"
                /\ Result(r).payload.isPlaying = (body.is_playing = <<TRUE>>)
                /\ TrackIs(Result(r).payload, body.item)
                /\ Result(r).payload.playedAt = Null
                /\ Count(r, "recent") = 0

\* C9 witness: currently-playing answered with a track that is paused.
C9_Witness ==
    \E r \in Requests :
        /\ Returned(r)
        /\ HasBody(cycle[r].current)
        /\ HasTrack(cycle[r].current[1].body)
        /\ cycle[r].current[1].body.is_playing = <<FALSE>>
        /\ ~Result(r).payload.isPlaying

\* currently-playing answered 204, or 200 with a body whose track has neither
\* title nor artist.
NothingPlaying(answer) ==
    \/ HasStatus(answer, 204)
    \/ HasBody(answer) /\ ~HasTrack(answer[1].body)

\* C10: after a 204 of currently-playing, or a 200 without track metadata,
\* recently-played is requested exactly once; when it answers 200 with a JSON
\* body the result is status 200, source "spotify", isPlaying false, the
\* first item's track and its played_at, all of them null when there is no
\* item; when it answers 204 the result is the same with every field null.
C10_RecentlyPlayedFallback ==
    \A r \in Requests :
        LET c == cycle[r]
        IN  /\ (pc[r] = "recent" /\ NothingPlaying(c.current)) => Count(r, "recent") = 1
            /\ (Returned(r) /\ NothingPlaying(c.current)) =>
                   /\ Count(r, "recent") = 1
                   /\ c.recent # <<>>
                   /\ (HasBody(c.recent) \/ HasStatus(c.recent, 204)) =>
                          /\ Result(r).status = 200
                          /\ Result(r).payload.source = "spotify"
                          /\ Result(r).payload.isPlaying = FALSE
                   /\ HasBody(c.recent) =>
                          LET item == FirstItem(c.recent[1].body)
                          IN  IF item # <<>>
                              THEN /\ TrackIs(Result(r).payload, item[1].track)
                                   /\ Result(r).payload.playedAt = item[1].played_at
                              ELSE /\ TrackIs(Result(r).payload, <<>>)
                                   /\ Result(r).payload.playedAt = Null
                   /\ HasStatus(c.recent, 204) =>
                          /\ TrackIs(Result(r).payload, <<>>)
                          /\ Result(r).payload.playedAt = Null

\* C10 witness: currently-playing answered 204 and the recent track is
\* returned with its timestamp.
C10_Witness ==
    \E r \in Requests :
        /\ Returned(r)
        /\ HasStatus(cycle[r].current, 204)
        /\ HasBody(cycle[r].recent)
        /\ Result(r).payload.title # Null
        /\ Result(r).payload.playedAt = <<"t">>

\* A client credential is missing: unset or empty.
Missing(value) == value = Null \/ value = <<>>

\* The TTL a setting gives: its value when that is a number >= 0, and
\* otherwise the default.
TtlOf(value, default) == IF value # NaN /\ value >= 0 THEN value ELSE default

\* The track fields of a payload are all null.
NoTrack(payload) ==
    /\ payload.title = Null
    /\ payload.artist = Null
    /\ payload.songUrl = Null
    /\ payload.albumImageUrl = Null

\* The shape of the result without client credentials.
IsUnconfigured(result) ==
    /\ result.status = 200
    /\ result.payload.source = "unconfigured"
    /\ result.payload.isPlaying = FALSE
    /\ NoTrack(result.payload)
    /\ result.payload.playedAt = Null

\* C11: when the client id or the client secret is missing, no request makes
\* an outbound call or reads or writes the token store, every result is
\* status 200 with source "unconfigured", isPlaying false and null track
\* fields, and the result is cached until the time of the fetch plus the
\* unconfigured TTL.
C11_Unconfigured ==
    /\ [](Missing(clientId) \/ Missing(clientSecret) =>
            /\ \A r \in Requests : calls[r] = <<>> /\ ~InCycle(r)
            /\ \A r \in Requests : promiseValue[r] # <<>> => IsUnconfigured(promiseValue[r][1])
            /\ \A r \in Requests : response[r] # <<>> => IsUnconfigured(response[r][1])
            /\ cachedResponse # <<>> => IsUnconfigured(cachedResponse[1]))
    /\ [][Missing(clientId) \/ Missing(clientSecret) =>
            /\ UNCHANGED files
            /\ cachedResponse' # cachedResponse =>
                   /\ cachedResponse' # <<>>
                   /\ cachedResponse'[1].expiresAt =
                          now + TtlOf(ttlConfig.unconfigured, 60000)
         ]_vars

\* C11 witness: without a client secret a request is answered and its result
\* is cached for the default unconfigured TTL.
C11_Witness ==
    \E r \in Requests :
        /\ clientId = <<"i">>
        /\ Missing(clientSecret)
        /\ pc[r] = "done"
        /\ cachedResponse # <<>>
        /\ cachedResponse[1].payload.source = "unconfigured"
        /\ cachedResponse[1].expiresAt = now + 60000

\* An answer of a playback endpoint that makes fetchLiveResult throw: the
\* fetch rejected, the status is neither 200 nor 204, or the body of a 200 is
\* not JSON.
BadAnswer(answer) ==
    /\ answer # <<>>
    /\ \/ answer[1].kind = "throw"
       \/ answer[1].status \notin {200, 204}
       \/ answer[1].status = 200 /\ ~answer[1].json

\* The fetch cycle request r has run failed: it got no access token, or a
\* playback endpoint gave a bad answer.
CycleFailed(r) ==
    \/ cycle[r].accessToken = Null
    \/ BadAnswer(cycle[r].current)
    \/ BadAnswer(cycle[r].recent)

\* The one result of a failed fetch.
GenericError ==
    [status |-> 502,
     payload |-> [source |-> "error", isPlaying |-> FALSE, title |-> Null,
                  artist |-> Null, songUrl |-> Null, albumImageUrl |-> Null,
                  playedAt |-> Null, message |-> "Unable to reach Spotify API."]]

\* C12: the result of a failed fetch is the same whichever step failed and
\* whatever status, body or exception the upstream gave: every failed cycle
\* returns the one generic error result, and so does every response and every
\* cached result of source "error".
C12_ErrorIndependentOfUpstream ==
    /\ \A r \in Requests : (Returned(r) /\ CycleFailed(r)) => Result(r) = GenericError
    /\ \A r \in Requests :
         (response[r] # <<>> /\ response[r][1].payload.source = "error") =>
             response[r] = <<GenericError>>
    /\ (cachedResponse # <<>> /\ cachedResponse[1].payload.source = "error") =>
           /\ cachedResponse[1].status = GenericError.status
           /\ cachedResponse[1].payload = GenericError.payload

\* C12 witness: both refresh-token candidates were refused by the token
\* endpoint and the cycle returned the generic error.
C12_Witness ==
    \E r \in Requests :
        /\ Returned(r)
        /\ Len(cycle[r].exchanged) = 2
        /\ \A i \in 1..2 : cycle[r].exchanged[i].outcome = "failed"
        /\ Result(r) = GenericError

\* The status of a result matches its source.
StatusMatchesSource(result) ==
    /\ result.status \in {200, 502, 500}
    /\ result.payload.source \in {"spotify", "unconfigured", "error"}
    /\ result.status = 200 <=> result.payload.source \in {"spotify", "unconfigured"}
    /\ result.status = 502 <=> result.payload.source = "error"

\* C13: every response, live or from the cache, and the cached result have
\* status 200, 502 or 500, with 200 exactly for the sources "spotify" and
\* "unconfigured" and 502 exactly for "error"; a live fetch returns 502
\* exactly when its cycle failed; and 500, the status of the catch of GET, is
\* answered by no request, nothing GET awaits being able to reject.
C13_StatusMatchesPayload ==
    /\ \A r \in Requests :
         response[r] # <<>> =>
             StatusMatchesSource(response[r][1]) /\ response[r][1].status # 500
    /\ \A r \in Requests :
         promiseValue[r] # <<>> => StatusMatchesSource(promiseValue[r][1])
    /\ cachedResponse # <<>> => StatusMatchesSource(cachedResponse[1])
    /\ \A r \in Requests :
         pc[r] = "finally" =>
             (Result(r).status = 502 <=> (clientConfigured /\ CycleFailed(r)))

\* C13 witness: a failed fetch was cached and a later request is answered
\* 502 from the cache.
C13_Witness ==
    \E r \in Requests :
        /\ pc[r] = "respond"
        /\ cycle[r].promise = NoPromise
        /\ response[r][1].status = 502
        /\ response[r][1].payload.source = "error"

\* C14: whenever a result is written to the cache slot its expiry is the
\* time of the write plus the TTL of its source alone: for "error" the error
\* setting, for "unconfigured" the unconfigured setting and for "spotify" the
\* response setting, each when it is a number >= 0 and otherwise replaced by
\* its own default of 5000, 60000 and 300000 ms.
C14_ExpiryBySource ==
    [][cachedResponse' # cachedResponse =>
         /\ cachedResponse' # <<>>
         /\ LET source == cachedResponse'[1].payload.source
                ttl == CASE source = "error" -> TtlOf(ttlConfig.error, 5000)
                         [] source = "unconfigured" ->
                                TtlOf(ttlConfig.unconfigured, 60000)
                         [] source = "spotify" -> TtlOf(ttlConfig.response, 300000)
            IN  cachedResponse'[1].expiresAt = now + ttl
      ]_vars

\* C14 witness: with the response setting not a number and the error setting
\* negative, a failed fetch is cached for the default error TTL.
C14_Witness ==
    /\ ttlConfig.response = NaN
    /\ ttlConfig.error < 0
    /\ cachedResponse # <<>>
    /\ cachedResponse[1].payload.source = "error"
    /\ cachedResponse[1].expiresAt = now + 5000

\* A value is null or a non-empty string without leading or trailing
\* whitespace.
NullOrTrimmed(value) ==
    value = Null \/ (value # <<>> /\ Trim(value) = value)

\* C18: for every raw track, well formed or not, each of title, artist,
\* songUrl and albumImageUrl of the result of parseTrack is null or a
\* non-empty string without leading or trailing whitespace.
C18_ParseTrackTrimmed ==
    output # <<>> =>
        /\ NullOrTrimmed(output[1].title)
        /\ NullOrTrimmed(output[1].artist)
        /\ NullOrTrimmed(output[1].songUrl)
        /\ NullOrTrimmed(output[1].albumImageUrl)

\* The cache slot holds the result the fetch of request r returned.
CacheHolds(r) ==
    /\ cachedResponse # <<>>
    /\ promiseValue[r] # <<>>
    /\ cachedResponse[1].status = promiseValue[r][1].status
    /\ cachedResponse[1].payload = promiseValue[r][1].payload

\* C19 as stated: a step that writes the cache slot leaves the in-flight
\* marker cleared.
C19_ClearedBeforeCached ==
    [][cachedResponse' # cachedResponse => inFlightResponse' = NoPromise]_vars

\* C19 amended: the result of a live fetch, successful or failed, is written
\* to the cache slot before the in-flight marker is cleared: a step that
\* writes the cache slot leaves the marker naming the fetch whose result it
\* wrote, and a step that clears the marker finds that result in the slot and
\* leaves the slot as it is.
C19_CachedBeforeCleared ==
    [][/\ cachedResponse' # cachedResponse =>
              /\ inFlightResponse' # NoPromise
              /\ pc'[inFlightResponse'] = "finally"
              /\ promiseValue'[inFlightResponse'] # <<>>
              /\ cachedResponse'[1].status = promiseValue'[inFlightResponse'][1].status
              /\ cachedResponse'[1].payload = promiseValue'[inFlightResponse'][1].payload
       /\ (inFlightResponse # NoPromise /\ inFlightResponse' = NoPromise) =>
              /\ CacheHolds(inFlightResponse)
              /\ cachedResponse' = cachedResponse
      ]_vars

\* C19 witness: a failed fetch has been written to the cache slot and the
\* marker is not cleared yet.
C19_Witness ==
    \E r \in Requests :
        /\ inFlightResponse = r
        /\ pc[r] = "finally"
        /\ CacheHolds(r)
        /\ cachedResponse[1].payload.source = "error"

\* C20: once the fetch a request started has settled, the marker is
\* eventually empty; the marker is cleared only by the request that started
\* the fetch it names and only when that fetch has settled; and a request
\* attaches only to a fetch that has not settled, one that finds no fresh
\* cached result and an empty marker starting a fetch of its own.
C20_MarkerReset ==
    /\ \A r \in Requests :
         (pc[r] = "finally" /\ inFlightResponse = r) ~> (inFlightResponse = NoPromise)
    /\ [][/\ (inFlightResponse # NoPromise /\ inFlightResponse' # inFlightResponse) =>
                 /\ inFlightResponse' = NoPromise
                 /\ Settled(inFlightResponse)
                 /\ pc[inFlightResponse] = "finally"
                 /\ pc'[inFlightResponse] = "respond"
          /\ \A q \in Requests :
                 (pc[q] = "idle" /\ pc'[q] = "attached") =>
                     /\ inFlightResponse # NoPromise
                     /\ cycle'[q].promise = inFlightResponse
                     /\ ~Settled(inFlightResponse)
          /\ \A q \in Requests :
                 (pc[q] = "idle" /\ pc'[q] # "idle" /\ ~CacheFresh
                     /\ inFlightResponse = NoPromise) =>
                     /\ inFlightResponse' = q
                     /\ pc'[q] \in {"readStore", "finally"}
         ]_vars

\* C20 witness: after the fetch of one request has settled and its marker is
\* cleared, a later request that finds no fresh cached result runs a fetch of
\* its own.
C20_Witness ==
    \E r, q \in Requests :
        /\ r < q
        /\ pc[r] = "done"
        /\ cachedResponse # <<>>
        /\ ~CacheFresh
        /\ inFlightResponse = q
        /\ InCycle(q)

\* The status text in lower case.
LowerInput == ToLowerCase(IF input = Null THEN <<>> ELSE input)


\* C17 as stated: a status text that contains both "degraded" and "running"
\* is classified as degraded.
C17_BothIsDegraded ==
    (output # <<>> /\ Includes(LowerInput, Degraded) /\ Includes(LowerInput, Running)) =>
        output = <<"degraded">>

\* C17 amended: the classification is order-sensitive with the running
\* keywords tested first, so that a status text that contains both
\* "degraded" and "running" is classified as running.
C17_BothIsRunning ==
    (output # <<>> /\ Includes(LowerInput, Degraded) /\ Includes(LowerInput, Running)) =>
        output = <<"running">>

\* C17 witness: "degraded running" has been classified.
C17_Witness ==
    /\ input = Degraded \o <<" ">> \o Running
    /\ output = <<"running">>

\* The classes in the order in which their keywords are tested.
GroupOrder == <<"running", "degraded", "pending", "exited">>

\* The keywords a class lists.
KeywordsOf(class) ==
    CASE class = "running" -> RunningKeywords
      [] class = "degraded" -> DegradedKeywords
      [] class = "pending" -> PendingKeywords
      [] class = "exited" -> ExitedKeywords

\* The positions in GroupOrder of the classes of which the text, in lower
\* case, contains a keyword.
MatchingGroups ==
    {i \in 1..Len(GroupOrder) : IncludesAny(LowerInput, KeywordsOf(GroupOrder[i]))}

\* C23: normalizeStatus is a total classifier into running, degraded,
\* pending, exited: the groups are tested in that order on the lower-cased
\* text, the first group with a matching substring decides, and a text that
\* matches no group, an empty or missing one included, is running.
C23_FirstGroupDecides ==
    output # <<>> =>
        /\ output[1] \in {"running", "degraded", "pending", "exited"}
        /\ MatchingGroups = {} => output[1] = "running"
        /\ MatchingGroups # {} =>
              output[1] = GroupOrder[CHOOSE i \in MatchingGroups :
                                        \A j \in MatchingGroups : i <= j]

\* C23 witness: "Degraded", written with a capital, matches the degraded
\* group and, later in the order, no other; it has been classified.
C23_Witness ==
    /\ input = <<"D", "e", "g", "r", "a", "d", "e", "d">>
    /\ MatchingGroups = {2}
    /\ output = <<"degraded">>

\* C29: every keyword normalizeStatus lists is effective: a status text that
\* is exactly one listed keyword is classified into the class that lists it,
\* so that "unhealthy" is degraded and "inactive" is exited.
C29_KeywordsEffective ==
    \A i \in 1..Len(GroupOrder) :
        (output # <<>> /\ input # Null /\ input \in KeywordsOf(GroupOrder[i])) =>
            output[1] = GroupOrder[i]

\* C21: a failed live fetch (status 502, source "error") is stored in the
\* one cache slot like any other result: it wholly replaces what was cached
\* before, an older successful result included, and every request that
\* arrives within the error TTL receives the cached 502 without an upstream
\* call.
C21_FailureCached ==
    [][\A r \in Requests :
         /\ (pc[r] # "finally" /\ pc'[r] = "finally" /\ IsError(promiseValue'[r][1])) =>
               cachedResponse' =
                   <<[status |-> 502,
                      payload |-> promiseValue'[r][1].payload,
                      expiresAt |-> now + effectiveTtl(ttlConfig.error, DefaultErrorTtl)]>>
         /\ (pc[r] = "idle" /\ pc'[r] # "idle" /\ cachedResponse # <<>>
                /\ IsError(CachedResult) /\ now < cachedResponse[1].expiresAt) =>
               /\ pc'[r] = "respond"
               /\ response'[r] = <<CachedResult>>
               /\ response'[r][1].status = 502
               /\ UNCHANGED <<cachedResponse, inFlightResponse, files, calls, promiseValue>>
      ]_vars

\* C21 witness: a request is about to be answered with the cached 502,
\* having started no fetch, attached to none and made no call.
C21_Witness ==
    \E r \in Requests :
        /\ pc[r] = "respond"
        /\ cycle[r].promise = NoPromise
        /\ calls[r] = <<>>
        /\ cachedResponse # <<>>
        /\ IsError(CachedResult)
        /\ response[r] = <<CachedResult>>

\* Request r is about to be answered with the result of the fetch p, which
\* it started or attached to.
AnsweredBy(r, p) == pc[r] = "respond" /\ cycle[r].promise = p

\* C27: the requests that attached to one fetch in flight and the request
\* that started it receive the identical status and payload, and that pair
\* is what the cache slot holds once the fetch has completed.
C27_SameResultForAll ==
    \A p \in Requests :
        /\ \A r, q \in Requests :
              (AnsweredBy(r, p) /\ AnsweredBy(q, p)) => response[r] = response[q]
        /\ \A r \in Requests :
              AnsweredBy(r, p) =>
                 /\ response[r] # <<>>
                 /\ cachedResponse # <<>>
                 /\ response[r] = <<CachedResult>>
        /\ \A r \in Requests :
              (pc[r] = "attached" /\ cycle[r].promise = p /\ Settled(p)) =>
                 /\ cachedResponse # <<>>
                 /\ promiseValue[p] = <<CachedResult>>

\* C27 witness: the request that started a fetch and a request that attached
\* to it are both about to be answered, with its failure.
C27_Witness ==
    \E r, q \in Requests :
        /\ r # q
        /\ AnsweredBy(r, r)
        /\ AnsweredBy(q, r)
        /\ IsError(response[q][1])

\* The states of a request in which it reads the token store or is inside
\* persistRefreshToken.
StoreStates == {"readStore", "mkdir", "write", "writing", "rename"}

\* C22: under any interleaving of requests no two persist operations overlap
\* and no read of the token store overlaps a persist: every access to the
\* store is made by the one fetch cycle in flight.
C22_StoreAccessSerial ==
    /\ Cardinality({r \in Requests : pc[r] \in StoreStates}) <= 1
    /\ \A r \in Requests :
          pc[r] \in StoreStates => inFlightResponse = r /\ cycle[r].promise = r
    /\ \A r \in Requests :
          (pc[r] \notin StoreStates /\ pc[r] # "token") =>
              \A i \in 1..Len(calls[r]) : calls[r][i] \in {"readStore", "token", "persist"} =>
                  inFlightResponse = r

\* C22 witness: a persist is half way, the temporary file written and not
\* yet renamed, while another request has arrived and is attached.
C22_Witness ==
    \E r, q \in Requests :
        /\ pc[r] = "rename"
        /\ tempFile.kind = "complete"
        /\ pc[q] = "attached"

\* The token the store gives when it is read.
StoreToken == readStoredRefreshToken(storeFile, FALSE)

\* C28: after a fetch cycle in which the exchange of a candidate succeeded
\* and the write of the store did not fail, the store holds the latest
\* refresh token: the rotated one if the provider sent one, otherwise the
\* token of the candidate that succeeded; the playback lookups that follow
\* leave the store as it is, whether they succeed or not. When no exchange
\* succeeds the store is not written.
C28_StoreHoldsLatest ==
    [][\A r \in Requests :
         /\ (pc[r] # "session" /\ pc'[r] = "session" /\ ~cycle'[r].persistFailed) =>
               LET c == cycle'[r]
                   latest == IF c.rotatedRefreshToken # Null
                             THEN c.rotatedRefreshToken
                             ELSE c.candidates[c.index].value
               IN  /\ c.exchanged[c.index].outcome = "ok"
                   /\ storeFile'.kind = "complete"
                   /\ readStoredRefreshToken(storeFile', FALSE) = latest
         /\ pc[r] \in {"session", "current", "recent", "finally"} => UNCHANGED files
         /\ (pc[r] \in {"readStore", "token"} /\ pc'[r] = "finally") =>
               /\ \A i \in 1..Len(cycle'[r].exchanged) :
                     cycle'[r].exchanged[i].outcome = "failed"
               /\ \A i \in 1..Len(calls'[r]) : calls'[r][i] # "persist"
               /\ UNCHANGED files
      ]_vars

\* C28 witness: the stored token was refused, the token of the environment
\* was accepted without a rotated one, and the store now holds it.
C28_Witness ==
    \E r \in Requests :
        /\ pc[r] = "session"
        /\ ~cycle[r].persistFailed
        /\ cycle[r].index = 2
        /\ cycle[r].candidates[2].source = "env"
        /\ cycle[r].rotatedRefreshToken = Null
        /\ StoreToken = cycle[r].candidates[2].value
        /\ StoreToken # StoredToken

(* ---------------------------- /api/homelab ----------------------------- *)

\* The body of the response /api/homelab has returned.
HomelabBody == homelabResponse[1].body

\* buildBeszelSnapshot threw, or its systems lookup gave no system.
BuildFailed == h[1].error # "" \/ h[1].systems = <<>>

\* C15: GET /api/homelab always answers with status 200, and whenever the
\* systems lookup is empty or unavailable or a step of the live build throws
\* (authentication, HTTP error, timeout, missing id, unavailable containers
\* collection), the body is exactly the static mock snapshot, source "mock".
C15_MockOnFailure ==
    homelabResponse # <<>> =>
        /\ homelabResponse[1].status = 200
        /\ BuildFailed =>
              /\ HomelabBody = buildMockSnapshot(variant)
              /\ HomelabBody.source = "mock"
              /\ HomelabBody.rows = mockRows(variant)

\* The containers of the system had been fetched when the lookup of its
\* details timed out, and the request was answered.
C15_Witness ==
    /\ homelabResponse # <<>>
    /\ h[1].rows # <<>>
    /\ h[1].error = "The operation was aborted"

\* C16: no returned snapshot mixes live and mock data: it is the complete
\* mock snapshot, or it has source "beszel" and its rows are the rows built
\* from backend records, never the mock rows.
C16_NoMixedSnapshot ==
    homelabResponse # <<>> =>
        \/ HomelabBody = buildMockSnapshot(variant)
        \/ /\ HomelabBody.source = "beszel"
           /\ HomelabBody.rows = h[1].rows
           /\ HomelabBody.rows # mockRows(variant)

\* The number of rows of the returned snapshot of the given type.
RowsOfType(type) ==
    Cardinality({i \in 1..Len(HomelabBody.rows) : HomelabBody.rows[i].type = type})

\* C24: in every snapshot /api/homelab returns the summary counts agree with
\* the snapshot's own rows: containers and pods count the rows of their
\* type, alerts counts the rows whose status is degraded or pending.
C24_SummaryMatchesRows ==
    homelabResponse # <<>> =>
        /\ HomelabBody.summary.containers = RowsOfType("containers")
        /\ HomelabBody.summary.pods = RowsOfType("pods")
        /\ HomelabBody.summary.alerts =
              Cardinality({i \in 1..Len(HomelabBody.rows) :
                              HomelabBody.rows[i].status \in {"degraded", "pending"}})

\* The answer is a JSON body with an items array.
WellFormed(answer) ==
    answer.error = "" /\ answer.status = 200 /\ answer.json /\ answer.items # <<>>

\* C25: for each kind the collection candidates are tried in their listed
\* order, each at most once; the first candidate that returns a well-formed
\* items array is used, even when the array is empty, and no later candidate
\* is requested; a candidate that throws or returns 404 or a malformed body
\* is skipped; if no candidate qualifies the result is the empty list and the
\* build of the snapshot continues.
C25_CandidatesInOrder ==
    (h # <<>> /\ variant = "collections") =>
        \A kind \in Kinds :
            LET loop == h[1].loops[kind]
                candidates == COLLECTION_CANDIDATES[kind]
                n == Len(loop.answers)
            IN  /\ Len(loop.tried) = n
                /\ n <= Len(candidates)
                /\ loop.tried = SubSeq(candidates, 1, n)
                /\ \A i \in 1..(n - 1) : ~WellFormed(loop.answers[i])
                /\ (n > 0 /\ WellFormed(loop.answers[n])) =>
                      loop.done /\ loop.items = loop.answers[n].items[1]
                /\ (n > 0 /\ ~WellFormed(loop.answers[n])) =>
                      IF n < Len(candidates) THEN ~loop.done
                      ELSE loop.done /\ loop.items = <<>>
                /\ (loop.done /\ hpc = "done" /\ h[1].error = "") =>
                      HomelabBody.source = "beszel"

\* C25 witness: the first containers candidate returned an empty items array
\* and was used, no pods candidate qualified, and the snapshot was built.
C25_Witness ==
    /\ hpc = "done"
    /\ variant = "collections"
    /\ h[1].loops["containers"].tried = <<"containers">>
    /\ h[1].loops["containers"].answers = <<Answer(200, TRUE, << <<>> >>)>>
    /\ h[1].loops["pods"].tried = <<"pods", "podman_pods">>
    /\ h[1].loops["pods"].answers = <<Answer(404, FALSE, <<>>), Rejected("fetch failed")>>
    /\ HomelabBody.source = "beszel"

\* The collections build has built its rows and the request was answered.
RowsBuilt == hpc = "done" /\ variant = "collections" /\ h[1].error = ""

\* The records of a kind the direct collection gave, and the rows of the
\* records of that kind embedded in the system records.
DirectRecords(kind) == h[1].loops[kind].items

EmbeddedRows(kind) ==
    IF kind = "containers"
    THEN normalizeContainerRows(Embedded(h[1].systems, kind))
    ELSE normalizePodRows(Embedded(h[1].systems, kind))

DirectRows(kind) ==
    IF kind = "containers"
    THEN normalizeContainerRows(DirectRecords(kind))
    ELSE normalizePodRows(DirectRecords(kind))

\* The built rows of one type, in order.
BuiltRows(kind) ==
    LET OfKind(row) == row.type = kind
    IN  SelectSeq(h[1].rows, OfKind)

\* C26 as stated: embedded records are used only when both direct
\* collections are empty: if either gave a record, no embedded record of
\* either kind is among the rows. (No embedded record of the inputs has the
\* name of a direct one.)
C26_EmbeddedOnlyWhenBothEmpty ==
    (RowsBuilt /\ \E kind \in Kinds : DirectRecords(kind) # <<>>) =>
        \A kind \in Kinds :
            \A i \in 1..Len(h[1].rows), j \in 1..Len(EmbeddedRows(kind)) :
                h[1].rows[i] # EmbeddedRows(kind)[j]

\* C26 amended: embedded records are the fallback of each kind on its own:
\* the rows of a kind are the rows of its direct records if the direct
\* collection gave any, and the rows of the embedded records of that kind
\* otherwise, whatever the other kind's collection gave.
C26_EmbeddedPerKind ==
    RowsBuilt =>
        \A kind \in Kinds :
            BuiltRows(kind) =
                IF DirectRecords(kind) # <<>> THEN DirectRows(kind) ELSE EmbeddedRows(kind)

\* C26 witness: the containers collection gave a record, the pods collection
\* none, and the embedded pod is among the rows beside the direct container.
C26_Witness ==
    /\ RowsBuilt
    /\ h[1].systems = <<EmbeddingSystem>>
    /\ DirectRecords("containers") = <<RawRecord("web", Running)>>
    /\ DirectRecords("pods") = <<>>
    /\ h[1].rows = <<Row("containers", "web", "running"), Row("pods", "innerpod", "running")>>

\* The lookup of the system's details succeeded and found no record: a
\* JSON body whose items array is empty.
DetailsNotFound ==
    /\ variant = "system"
    /\ h # <<>>
    /\ h[1].detailsAnswer = <<Answer(200, TRUE, << <<>> >>)>>

\* C30: in the system-scoped build a lookup of system_details that succeeds
\* and finds no record is not a failure: fetchSingleRecordByFilter returns
\* null without throwing, the snapshot stays source "beszel" and its system
\* block is built from the system record alone.
C30_DetailsNotFoundIsNoFailure ==
    (hpc = "done" /\ DetailsNotFound) =>
        /\ h[1].error = ""
        /\ HomelabBody.source = "beszel"
        /\ HomelabBody.rows = h[1].rows
        /\ HomelabBody.system =
              <<buildSystemDetails(BESZEL_SYSTEM_NAME_FALLBACK, h[1].systems[1], <<>>)>>

====
